---- MODULE Spec2Model ----
(***************************************************************************)
(* Model of GeminiLLM (src/unnamed/part_000): executeLLM with its retry    *)
(* loop, the timeout race of executeWithTimeout, the error re-mapping of   *)
(* callGeminiAPI and the classification of isNonRetryableError.            *)
(*                                                                         *)
(* The JavaScript event loop is modelled as a discrete-event system: every *)
(* pending timer and every in-flight provider call has the time at which   *)
(* it settles, and one action runs one macrotask (a timer callback or the  *)
(* settlement of the provider call) together with all the promise          *)
(* continuations it triggers, up to the next await.  Strings are TLA+      *)
(* strings; trim, toLowerCase and includes are computed character by       *)
(* character.                                                              *)
(***************************************************************************)
EXTENDS Integers, Sequences, FiniteSets, TLC

VARIABLES config, apiKey, retryConfig, pc, prompt, attempt, lastError, outcome, now,
          timers, apiCalls, races, sleeps, log, parses, parked, planner, classified

vars == <<config, apiKey, retryConfig, pc, prompt, attempt, lastError, outcome, now,
          timers, apiCalls, races, sleeps, log, parses, parked, planner, classified>>

\* A provider call that never settles.
Never == 0 - 1

(***************************************************************************)
(* String functions of the JavaScript runtime.                             *)
(***************************************************************************)
CharAt(s, i) == SubSeq(s, i, i)

WhiteSpace == {" ", "\t", "\n", "\r"}

UpperCaseLetters == "ABCDEFGHIJKLMNOPQRSTUVWXYZ"

LowerCaseLetters == "abcdefghijklmnopqrstuvwxyz"

MinOf(S) == CHOOSE x \in S : \A y \in S : x <= y

MaxOf(S) == CHOOSE x \in S : \A y \in S : x >= y

\* String.prototype.trim
Trim(s) ==
    LET keep == {i \in 1..Len(s) : CharAt(s, i) \notin WhiteSpace}
    IN  IF keep = {} THEN "" ELSE SubSeq(s, MinOf(keep), MaxOf(keep))

UpperCaseSet == {CharAt(UpperCaseLetters, i) : i \in 1..Len(UpperCaseLetters)}

LowerCaseOf ==
    [c \in UpperCaseSet |->
        CharAt(LowerCaseLetters,
               CHOOSE i \in 1..Len(UpperCaseLetters) : CharAt(UpperCaseLetters, i) = c)]

LowerChar(c) == IF c \in UpperCaseSet THEN LowerCaseOf[c] ELSE c

\* The characters i..j of s in lower case, the two halves one after the
\* other.
RECURSIVE LowerFrom(_, _, _)
LowerFrom(s, i, j) ==
    IF i > j THEN ""
    ELSE IF i = j THEN LowerChar(CharAt(s, i))
    ELSE LowerFrom(s, i, (i + j) \div 2) \o LowerFrom(s, (i + j) \div 2 + 1, j)

\* String.prototype.toLowerCase
ToLowerCase(s) == LowerFrom(s, 1, Len(s))

\* String.prototype.includes
Includes(s, sub) ==
    \E i \in 1..(Len(s) - Len(sub) + 1) : SubSeq(s, i, i + Len(sub) - 1) = sub

\* the emptiness test without the trim
IsBlankNoTrim(s) == Len(s) = 0

\* JavaScript falsiness of a string followed by the trim test:
\* !s || s.trim().length === 0
IsBlank(s) == Len(s) = 0 \/ Len(Trim(s)) = 0

Min(a, b) == IF a <= b THEN a ELSE b

(***************************************************************************)
(* The retry policy set by the constructor.                                *)
(***************************************************************************)
\* a policy with one retry too many
RetryConfigFourRetries ==
    [maxRetries |-> 4, baseDelayMs |-> 1000, maxDelayMs |-> 10000, timeoutMs |-> 30000]

DefaultRetryConfig ==
    [maxRetries |-> 3, baseDelayMs |-> 1000, maxDelayMs |-> 10000, timeoutMs |-> 30000]

\* a constructor that takes the retry options of its argument
ConstructorWithOverrides(cfg) ==
    [apiKey |-> cfg.apiKey,
     retryConfig |->
        [name \in DOMAIN DefaultRetryConfig |->
            IF name \in DOMAIN cfg THEN cfg[name] ELSE DefaultRetryConfig[name]]]

\* The constructor: the fields of the new instance.
Constructor(cfg) == [apiKey |-> cfg.apiKey, retryConfig |-> DefaultRetryConfig]

\* Arguments of the constructor: the API key alone, and an object that also
\* carries retry options.
PlainConfig == [apiKey |-> "key"]

Configs == {PlainConfig, [apiKey |-> "key2", maxRetries |-> 1, timeoutMs |-> 5000]}

(***************************************************************************)
(* Messages.                                                               *)
(***************************************************************************)
EmptyPromptMessage == "Prompt cannot be empty or null"

EmptyResponseMessage == "LLM returned empty response"

TimeoutMessage(cfg) == "LLM request timed out after " \o ToString(cfg.timeoutMs) \o "ms"

\* a non-retryable error that drops its cause
NonRetryableMessageNoCause(m) == "Non-retryable error"

\* The message of the error thrown for a non-retryable failure.
NonRetryableMessage(m) == "Non-retryable error: " \o m

\* an aggregate message that counts the retries, not the attempts
AggregateMessageRetries(cfg, last) ==
    "LLM request failed after " \o ToString(cfg.maxRetries)
        \o " attempts. Last error: " \o last

\* The message thrown after the loop of executeLLM.
AggregateMessage(cfg, last) ==
    "LLM request failed after " \o ToString(cfg.maxRetries + 1)
        \o " attempts. Last error: " \o last

RetryLogLine(n, m, delay) ==
    "Attempt " \o ToString(n) \o " failed: " \o m \o ". Retrying in "
        \o ToString(delay) \o "ms..."

\* a catch block that only wraps the message
RemapErrorGenericOnly(errorMessage) == "Gemini API error: " \o errorMessage

\* a catch block that matches the provider markers in any letter case
RemapErrorAnyCase(errorMessage) ==
    LET lower == ToLowerCase(errorMessage)
    IN  IF Includes(lower, "api_key_invalid") THEN "Invalid API key provided"
        ELSE IF Includes(lower, "quota_exceeded")
            THEN "API quota exceeded - please try again later"
        ELSE IF Includes(lower, "safety")
            THEN "Request blocked by safety filters - please modify your prompt"
        ELSE IF Includes(lower, "permission_denied")
            THEN "Permission denied - check your API key permissions"
        ELSE "Gemini API error: " \o errorMessage

\* The catch block of callGeminiAPI: the message of the error it rethrows.
RemapError(errorMessage) ==
    IF Includes(errorMessage, "API_KEY_INVALID") THEN "Invalid API key provided"
    ELSE IF Includes(errorMessage, "QUOTA_EXCEEDED")
        THEN "API quota exceeded - please try again later"
    ELSE IF Includes(errorMessage, "SAFETY")
        THEN "Request blocked by safety filters - please modify your prompt"
    ELSE IF Includes(errorMessage, "PERMISSION_DENIED")
        THEN "Permission denied - check your API key permissions"
    ELSE "Gemini API error: " \o errorMessage

NonRetryableSubstrings ==
    {"invalid api key", "permission denied", "quota exceeded", "safety",
     "prompt cannot be empty"}

\* a classification that also takes the word "error" as fatal
IsNonRetryableErrorBroad(errorMessage) ==
    \E message \in {ToLowerCase(errorMessage)} :
        \E sub \in NonRetryableSubstrings \cup {"error"} : Includes(message, sub)

\* isNonRetryableError without the toLowerCase
IsNonRetryableErrorCaseSensitive(errorMessage) ==
    \E sub \in NonRetryableSubstrings : Includes(errorMessage, sub)

IsNonRetryableError(errorMessage) ==
    \E message \in {ToLowerCase(errorMessage)} :
        \E sub \in NonRetryableSubstrings : Includes(message, sub)

\* a backoff that grows linearly
BackoffDelayLinear(cfg, k) == Min(cfg.baseDelayMs * (k + 1), cfg.maxDelayMs)

\* a backoff whose exponent is the number of the attempt, not its index
BackoffDelayOffByOne(cfg, k) == Min(cfg.baseDelayMs * (2 ^ (k + 1)), cfg.maxDelayMs)

\* a backoff with a jitter taken from the clock
BackoffDelayJitter(cfg, k) == Min(cfg.baseDelayMs * (2 ^ k), cfg.maxDelayMs) + (now % 7)

\* The delay computed in the catch block of executeLLM.
BackoffDelay(cfg, k) == Min(cfg.baseDelayMs * (2 ^ k), cfg.maxDelayMs)

\* a loop condition that excludes the attempt of index maxRetries
LoopContinuesStrict(cfg, k) == k < cfg.maxRetries

\* The condition of the for loop of executeLLM.
LoopContinues(cfg, k) == k <= cfg.maxRetries

\* a last-attempt test that is off by one
IsLastAttemptOffByOne(cfg, k) == k = cfg.maxRetries + 1

\* The test that breaks out of the loop after the last attempt.
IsLastAttempt(cfg, k) == k = cfg.maxRetries

\* keeps the error of the first failed attempt
RecordFirstError(previous, message) == IF previous = <<>> THEN <<message>> ELSE previous

\* lastError = error, in the catch block of executeLLM.
RecordError(previous, message) == <<message>>

\* a timeout timer set to the wrong field of the policy
TimerDeadlineMaxDelay(cfg, t) == t + cfg.maxDelayMs

\* The time at which the timer set by executeWithTimeout at time t fires.
TimerDeadline(cfg, t) == t + cfg.timeoutMs

\* a race that the last settlement wins
RaceIsOpenAlways(race) == TRUE

\* Promise.race: the race takes a settlement only while it is not settled.
RaceIsOpen(race) == race.state = "pending"

\* a sleep that is not awaited
SleepDeadlineNoWait(t, ms) == t

\* The time at which the timer set by sleep(ms) at time t fires.
SleepDeadline(t, ms) == t + ms

(***************************************************************************)
(* The provider (model.generateContent and response.text()): a black box   *)
(* that answers with a text or rejects with a message, after some latency  *)
(* or never.                                                               *)
(***************************************************************************)
Prompts == {"", " ", " \n\t", " estimate the trip\n"}

ProviderTexts == {" ok\n", " \n", ""}

TransientErrors == {"fetch failed"}

FatalErrors ==
    {"QUOTA_EXCEEDED", "Invalid API Key", "Permission Denied", "quota exceeded",
     "blocked: Safety", "Prompt cannot be empty",
     "[400] API_KEY_INVALID", "finishReason: SAFETY", "[403] PERMISSION_DENIED"}

ProviderOutcomes ==
    {[kind |-> "text", value |-> t] : t \in ProviderTexts}
        \cup {[kind |-> "error", value |-> m] : m \in TransientErrors \cup FatalErrors}

\* Latencies of a provider call, in ms: well under the timeout, over the
\* timeout, or no answer at all.
Latencies == {200, 31500, Never}

(***************************************************************************)
(* callGeminiAPI from the settlement of the provider on: the settlement of *)
(* llmPromise.                                                             *)
(***************************************************************************)
\* callGeminiAPI without the empty-response guard
CallGeminiAPINoEmptyGuard(o) ==
    IF o.kind = "text"
    THEN [state |-> "fulfilled", value |-> o.value]
    ELSE [state |-> "rejected", value |-> RemapError(o.value)]

\* callGeminiAPI returning the trimmed text
CallGeminiAPITrimmed(o) ==
    IF o.kind = "text"
    THEN IF IsBlank(o.value)
         THEN [state |-> "rejected", value |-> RemapError(EmptyResponseMessage)]
         ELSE [state |-> "fulfilled", value |-> Trim(o.value)]
    ELSE [state |-> "rejected", value |-> RemapError(o.value)]

CallGeminiAPI(o) ==
    IF o.kind = "text"
    THEN IF IsBlank(o.value)
         THEN [state |-> "rejected", value |-> RemapError(EmptyResponseMessage)]
         ELSE [state |-> "fulfilled", value |-> o.value]
    ELSE [state |-> "rejected", value |-> RemapError(o.value)]

NoOutcome == [kind |-> "none", value |-> ""]

\* The state after new TripCostEstimation(): no plan, no estimate, nothing
\* returned yet.
Reply(op, ok, plan, number, necessity, estimate) ==
    [op |-> op, ok |-> ok, plan |-> plan, number |-> number, necessity |-> necessity,
     estimate |-> estimate]

NoReply == Reply("none", TRUE, 0, 0, <<>>, <<>>)

NewPlanner == [plans |-> <<>>, estimates |-> <<>>, created |-> 0, reply |-> NoReply]

\* The state after new GeminiLLM(cfg).
Constructed(cfg) ==
    /\ config = cfg
    /\ apiKey = Constructor(cfg).apiKey
    /\ retryConfig = Constructor(cfg).retryConfig
    /\ pc = "idle"
    /\ prompt = ""
    /\ attempt = 0
    /\ lastError = <<>>
    /\ outcome = NoOutcome
    /\ now = 0
    /\ timers = <<>>
    /\ apiCalls = <<>>
    /\ races = <<>>
    /\ sleeps = <<>>
    /\ log = <<>>
    /\ parses = <<>>
    /\ parked = <<>>
    /\ planner = NewPlanner
    /\ classified = <<>>

Init == Constructed(PlainConfig)

\* Any of the constructor arguments.
InitConfigured == \E cfg \in Configs : Constructed(cfg)

(***************************************************************************)
(* The event loop: a pending event runs when no other pending event is     *)
(* due earlier.                                                            *)
(***************************************************************************)
\* The times at which the events of the activation record l are due.
PendingOf(l) ==
    {l.timers[k].deadline :
        k \in {j \in 1..Len(l.timers) : l.timers[j].state = "pending"}}
        \cup {l.apiCalls[k].settlesAt :
                k \in {j \in 1..Len(l.apiCalls) :
                         l.apiCalls[j].state = "inflight" /\ l.apiCalls[j].settlesAt # Never}}
        \cup {l.sleeps[k].deadline :
                k \in {j \in 1..Len(l.sleeps) : l.sleeps[j].state = "pending"}}

\* The events of the suspended executeLLM call, if there is one.
ParkedPendingTimes == IF parked = <<>> THEN {} ELSE PendingOf(parked[1])

PendingTimes ==
    {timers[k].deadline : k \in {j \in 1..Len(timers) : timers[j].state = "pending"}}
        \cup {apiCalls[k].settlesAt :
                k \in {j \in 1..Len(apiCalls) :
                         apiCalls[j].state = "inflight" /\ apiCalls[j].settlesAt # Never}}
        \cup {sleeps[k].deadline : k \in {j \in 1..Len(sleeps) : sleeps[j].state = "pending"}}

Due(t) == \A u \in PendingTimes \cup ParkedPendingTimes : t <= u

(***************************************************************************)
(* executeWithTimeout: creates the timeout timer, starts the provider call *)
(* and races the two.  The provider call of attempt a is apiCalls[a + 1],  *)
(* its timer timers[a + 1] and its race races[a + 1].                      *)
(***************************************************************************)
NewTimer(t) ==
    [createdAt |-> t, deadline |-> TimerDeadline(retryConfig, t), state |-> "pending"]

NewApiCall(t, a, p, latency) ==
    [attempt |-> a, prompt |-> p, startedAt |-> t,
     settlesAt |-> IF latency = Never THEN Never ELSE t + latency,
     state |-> "inflight", raw |-> NoOutcome, value |-> ""]

NewRace == [state |-> "pending", value |-> "", by |-> "none"]

\* an executeWithTimeout that awaits the provider call alone
ExecuteWithTimeoutNoTimer(t, a, p, latency) ==
    /\ timers' = Append(timers, [NewTimer(t) EXCEPT !.state = "cleared"])
    /\ apiCalls' = Append(apiCalls, NewApiCall(t, a, p, latency))
    /\ races' = Append(races, NewRace)

\* an executeWithTimeout that sends the request twice
ExecuteWithTimeoutHedged(t, a, p, latency) ==
    /\ timers' = timers \o <<NewTimer(t), NewTimer(t)>>
    /\ apiCalls' = apiCalls \o <<NewApiCall(t, a, p, latency), NewApiCall(t, a, p, latency)>>
    /\ races' = races \o <<NewRace, NewRace>>

ExecuteWithTimeout(t, a, p, latency) ==
    /\ timers' = Append(timers, NewTimer(t))
    /\ apiCalls' = Append(apiCalls, NewApiCall(t, a, p, latency))
    /\ races' = Append(races, NewRace)

(***************************************************************************)
(* executeLLM, from the settlement of the race of the current attempt to   *)
(* its next await or its end.                                              *)
(***************************************************************************)
\* a catch block that tests for the last attempt before it classifies the
\* error
AfterAttemptLastAttemptFirst(t, settled) ==
    IF settled.state = "fulfilled"
    THEN /\ pc' = "returned"
         /\ outcome' = [kind |-> "value", value |-> settled.value]
         /\ UNCHANGED <<lastError, sleeps, log>>
    ELSE /\ lastError' = RecordError(lastError, settled.value)
         /\ IF IsLastAttempt(retryConfig, attempt)
            THEN /\ pc' = "thrown"
                 /\ outcome' = [kind |-> "error",
                                value |-> AggregateMessage(retryConfig, lastError'[1])]
                 /\ UNCHANGED <<sleeps, log>>
            ELSE IF IsNonRetryableError(settled.value)
            THEN /\ pc' = "thrown"
                 /\ outcome' = [kind |-> "error",
                                value |-> NonRetryableMessage(settled.value)]
                 /\ UNCHANGED <<sleeps, log>>
            ELSE LET delay == BackoffDelay(retryConfig, attempt)
                 IN  /\ log' = Append(log, RetryLogLine(attempt + 1, settled.value, delay))
                     /\ sleeps' = Append(sleeps,
                                         [delay |-> delay, createdAt |-> t,
                                          deadline |-> SleepDeadline(t, delay), state |-> "pending",
                                          after |-> attempt])
                     /\ pc' = "sleeping"
                     /\ UNCHANGED outcome

AfterAttempt(t, settled) ==
    IF settled.state = "fulfilled"
    THEN /\ pc' = "returned"
         /\ outcome' = [kind |-> "value", value |-> settled.value]
         /\ UNCHANGED <<lastError, sleeps, log>>
    ELSE /\ lastError' = RecordError(lastError, settled.value)
         /\ IF IsNonRetryableError(settled.value)
            THEN /\ pc' = "thrown"
                 /\ outcome' = [kind |-> "error",
                                value |-> NonRetryableMessage(settled.value)]
                 /\ UNCHANGED <<sleeps, log>>
            ELSE IF IsLastAttempt(retryConfig, attempt)
            THEN /\ pc' = "thrown"
                 /\ outcome' = [kind |-> "error",
                                value |-> AggregateMessage(retryConfig, lastError'[1])]
                 /\ UNCHANGED <<sleeps, log>>
            ELSE LET delay == BackoffDelay(retryConfig, attempt)
                 IN  /\ log' = Append(log, RetryLogLine(attempt + 1, settled.value, delay))
                     /\ sleeps' = Append(sleeps,
                                         [delay |-> delay, createdAt |-> t,
                                          deadline |-> SleepDeadline(t, delay), state |-> "pending",
                                          after |-> attempt])
                     /\ pc' = "sleeping"
                     /\ UNCHANGED outcome

\* executeLLM(prompt), up to its first await.
ExecuteLLM(p, latency) ==
    /\ pc = "idle"
    /\ prompt' = p
    /\ IF IsBlank(p)
       THEN /\ pc' = "thrown"
            /\ outcome' = [kind |-> "error", value |-> EmptyPromptMessage]
            /\ UNCHANGED <<timers, apiCalls, races>>
       ELSE IF LoopContinues(retryConfig, 0)
       THEN /\ pc' = "awaiting"
            /\ ExecuteWithTimeout(now, 0, p, latency)
            /\ UNCHANGED outcome
       ELSE /\ pc' = "thrown"
            /\ outcome' = [kind |-> "error",
                           value |-> AggregateMessage(retryConfig, "undefined")]
            /\ UNCHANGED <<timers, apiCalls, races>>
    /\ UNCHANGED <<classified, config, apiKey, retryConfig, attempt, lastError, now, sleeps, log, parses, parked, planner>>

\* a settlement of the provider call that executeLLM takes whenever it is
\* still waiting, also after the call's own race was lost
ApiSettlesLateResultTaken(k, o) ==
    /\ k \in 1..Len(apiCalls)
    /\ apiCalls[k].state = "inflight"
    /\ apiCalls[k].settlesAt # Never
    /\ Due(apiCalls[k].settlesAt)
    /\ \E t \in {apiCalls[k].settlesAt}, settled \in {CallGeminiAPI(o)} :
           /\ now' = t
           /\ apiCalls' = [apiCalls EXCEPT ![k].state = settled.state,
                                           ![k].raw = o,
                                           ![k].value = settled.value]
           /\ IF RaceIsOpen(races[k])
              THEN /\ races' = [races EXCEPT ![k] = [state |-> settled.state,
                                                     value |-> settled.value,
                                                     by |-> "api"]]
                   /\ AfterAttempt(t, settled)
              ELSE IF settled.state = "fulfilled" /\ pc \in {"awaiting", "sleeping"}
              THEN /\ pc' = "returned"
                   /\ outcome' = [kind |-> "value", value |-> settled.value]
                   /\ UNCHANGED <<races, lastError, sleeps, log>>
              ELSE UNCHANGED <<races, pc, outcome, lastError, sleeps, log>>
    /\ UNCHANGED <<classified, config, apiKey, retryConfig, prompt, attempt, timers, parses, parked, planner>>

\* The provider call of attempt k - 1 settles with outcome o.
ApiSettles(k, o) ==
    /\ k \in 1..Len(apiCalls)
    /\ apiCalls[k].state = "inflight"
    /\ apiCalls[k].settlesAt # Never
    /\ Due(apiCalls[k].settlesAt)
    /\ \E t \in {apiCalls[k].settlesAt}, settled \in {CallGeminiAPI(o)} :
           /\ now' = t
           /\ apiCalls' = [apiCalls EXCEPT ![k].state = settled.state,
                                           ![k].raw = o,
                                           ![k].value = settled.value]
           /\ IF RaceIsOpen(races[k])
              THEN /\ races' = [races EXCEPT ![k] = [state |-> settled.state,
                                                     value |-> settled.value,
                                                     by |-> "api"]]
                   /\ AfterAttempt(t, settled)
              ELSE UNCHANGED <<races, pc, outcome, lastError, sleeps, log>>
    /\ UNCHANGED <<classified, config, apiKey, retryConfig, prompt, attempt, timers, parses, parked, planner>>

\* a timer callback that doubles the timeout of the policy for later attempts
TimeoutFiresAdaptive(k) ==
    /\ k \in 1..Len(timers)
    /\ timers[k].state = "pending"
    /\ Due(timers[k].deadline)
    /\ \E t \in {timers[k].deadline},
          settled \in {[state |-> "rejected", value |-> TimeoutMessage(retryConfig)]} :
           /\ now' = t
           /\ timers' = [timers EXCEPT ![k].state = "fired"]
           /\ IF RaceIsOpen(races[k])
              THEN /\ races' = [races EXCEPT ![k] = [state |-> "rejected",
                                                     value |-> settled.value,
                                                     by |-> "timer"]]
                   /\ AfterAttempt(t, settled)
              ELSE UNCHANGED <<races, pc, outcome, lastError, sleeps, log>>
    /\ retryConfig' = [retryConfig EXCEPT !.timeoutMs = 2 * @]
    /\ UNCHANGED <<classified, config, apiKey, prompt, attempt, apiCalls, parses, parked, planner>>

\* a timer callback that rejects the race of the attempt that is current
\* when it fires
TimeoutFiresCurrentRace(k) ==
    /\ k \in 1..Len(timers)
    /\ timers[k].state = "pending"
    /\ Due(timers[k].deadline)
    /\ \E t \in {timers[k].deadline},
          settled \in {[state |-> "rejected", value |-> TimeoutMessage(retryConfig)]} :
           /\ now' = t
           /\ timers' = [timers EXCEPT ![k].state = "fired"]
           /\ IF RaceIsOpen(races[Len(races)])
              THEN /\ races' = [races EXCEPT ![Len(races)] = [state |-> "rejected",
                                                              value |-> settled.value,
                                                              by |-> "timer"]]
                   /\ AfterAttempt(t, settled)
              ELSE UNCHANGED <<races, pc, outcome, lastError, sleeps, log>>
    /\ UNCHANGED <<classified, config, apiKey, retryConfig, prompt, attempt, apiCalls, parses, parked, planner>>

\* The timeout timer of attempt k - 1 fires.
TimeoutFires(k) ==
    /\ k \in 1..Len(timers)
    /\ timers[k].state = "pending"
    /\ Due(timers[k].deadline)
    /\ \E t \in {timers[k].deadline},
          settled \in {[state |-> "rejected", value |-> TimeoutMessage(retryConfig)]} :
           /\ now' = t
           /\ timers' = [timers EXCEPT ![k].state = "fired"]
           /\ IF RaceIsOpen(races[k])
              THEN /\ races' = [races EXCEPT ![k] = [state |-> "rejected",
                                                     value |-> settled.value,
                                                     by |-> "timer"]]
                   /\ AfterAttempt(t, settled)
              ELSE UNCHANGED <<races, pc, outcome, lastError, sleeps, log>>
    /\ UNCHANGED <<classified, config, apiKey, retryConfig, prompt, attempt, apiCalls, parses, parked, planner>>

\* The backoff timer fires: the loop goes on to the next attempt.
SleepFires(i, latency) ==
    /\ i \in 1..Len(sleeps)
    /\ sleeps[i].state = "pending"
    /\ Due(sleeps[i].deadline)
    /\ now' = sleeps[i].deadline
    /\ sleeps' = [sleeps EXCEPT ![i].state = "fired"]
    /\ attempt' = attempt + 1
    /\ IF LoopContinues(retryConfig, attempt + 1)
       THEN /\ pc' = "awaiting"
            /\ ExecuteWithTimeout(sleeps[i].deadline, attempt + 1, prompt, latency)
            /\ UNCHANGED <<outcome, lastError>>
       ELSE /\ pc' = "thrown"
            /\ outcome' = [kind |-> "error",
                           value |-> AggregateMessage(retryConfig, lastError[1])]
            /\ UNCHANGED <<timers, apiCalls, races, lastError>>
    /\ UNCHANGED <<classified, config, apiKey, retryConfig, prompt, log, parses, parked, planner>>

Next ==
    \/ \E p \in Prompts, l \in Latencies : ExecuteLLM(p, l)
    \/ \E k \in 1..Len(apiCalls), o \in ProviderOutcomes : ApiSettles(k, o)
    \/ \E k \in 1..Len(timers) : TimeoutFires(k)
    \/ \E i \in 1..Len(sleeps), l \in Latencies : SleepFires(i, l)

Spec == Init /\ [][Next]_vars


(***************************************************************************)
(* Two executeLLM calls on one instance.  The variables pc, prompt,        *)
(* attempt, lastError, outcome, timers, apiCalls, races and sleeps are the *)
(* activation record of the call whose continuation runs; parked holds the *)
(* activation record of the other call while it is suspended at an await.  *)
(* The instance fields and the clock are shared; so is the console.        *)
(***************************************************************************)
Locals ==
    [pc |-> pc, prompt |-> prompt, attempt |-> attempt, lastError |-> lastError,
     outcome |-> outcome, timers |-> timers, apiCalls |-> apiCalls, races |-> races,
     sleeps |-> sleeps]

\* an attempt counter kept on the instance and not reset by a new call
FreshLocalsSharedAttempt(previous) ==
    [attempt |-> previous.attempt, lastError |-> <<>>]

\* The locals executeLLM declares on entry, previous being the activation
\* record of the call before it.
FreshLocals(previous) == [attempt |-> 0, lastError |-> <<>>]

\* executeLLM(prompt) called again on the instance, up to its first await:
\* the call made before is suspended or has ended.
ExecuteLLMAgain(p, latency) ==
    /\ pc # "idle"
    /\ parked = <<>>
    /\ parked' = <<Locals>>
    /\ LET fresh == FreshLocals(Locals)
       IN  /\ prompt' = p
           /\ attempt' = fresh.attempt
           /\ lastError' = fresh.lastError
           /\ sleeps' = <<>>
           /\ IF IsBlank(p)
              THEN /\ pc' = "thrown"
                   /\ outcome' = [kind |-> "error", value |-> EmptyPromptMessage]
                   /\ timers' = <<>>
                   /\ apiCalls' = <<>>
                   /\ races' = <<>>
              ELSE IF LoopContinues(retryConfig, fresh.attempt)
              THEN /\ pc' = "awaiting"
                   /\ outcome' = NoOutcome
                   /\ timers' = <<NewTimer(now)>>
                   /\ apiCalls' = <<NewApiCall(now, fresh.attempt, p, latency)>>
                   /\ races' = <<NewRace>>
              ELSE /\ pc' = "thrown"
                   /\ outcome' = [kind |-> "error",
                                  value |-> AggregateMessage(retryConfig, "undefined")]
                   /\ timers' = <<>>
                   /\ apiCalls' = <<>>
                   /\ races' = <<>>
    /\ UNCHANGED <<classified, config, apiKey, retryConfig, now, log, parses, planner>>

\* The event loop turns to the suspended call, one of whose events is the
\* next to run: the two activation records change places.
Switch ==
    /\ parked # <<>>
    /\ \E t \in ParkedPendingTimes : Due(t)
    /\ parked' = <<Locals>>
    /\ pc' = parked[1].pc
    /\ prompt' = parked[1].prompt
    /\ attempt' = parked[1].attempt
    /\ lastError' = parked[1].lastError
    /\ outcome' = parked[1].outcome
    /\ timers' = parked[1].timers
    /\ apiCalls' = parked[1].apiCalls
    /\ races' = parked[1].races
    /\ sleeps' = parked[1].sleeps
    /\ UNCHANGED <<classified, config, apiKey, retryConfig, now, log, parses, planner>>

\* The inputs of the two calls, and of the call whose settling is followed
\* to its end.
TwoCallPrompts == {"", "rome", "oslo"}

TwoCallOutcomes ==
    {[kind |-> "text", value |-> " ok\n"],
     [kind |-> "error", value |-> "fetch failed"],
     [kind |-> "error", value |-> "QUOTA_EXCEEDED"]}

TwoCallLatencies == {200, Never}

NextTwoCalls ==
    \/ \E p \in TwoCallPrompts, l \in TwoCallLatencies : ExecuteLLM(p, l)
    \/ \E p \in TwoCallPrompts, l \in TwoCallLatencies : ExecuteLLMAgain(p, l)
    \/ \E k \in 1..Len(apiCalls), o \in TwoCallOutcomes : ApiSettles(k, o)
    \/ \E k \in 1..Len(timers) : TimeoutFires(k)
    \/ \E i \in 1..Len(sleeps), l \in TwoCallLatencies : SleepFires(i, l)
    \/ Switch

SpecTwoCalls == Init /\ [][NextTwoCalls]_vars

(***************************************************************************)
(* Two executeLLM runs on one instance, the second called when the first   *)
(* has returned or thrown, whose attempts fail for different causes: a     *)
(* timeout, an empty response, a provider error.                           *)
(***************************************************************************)
RunPrompts == {"", "rome"}

RunOutcomes ==
    {[kind |-> "text", value |-> " ok\n"],
     [kind |-> "text", value |-> " \n"],
     [kind |-> "error", value |-> "fetch failed"]}

\* executeLLM(prompt) called after the call before it has ended.
ExecuteLLMNext(p, latency) ==
    /\ pc \in {"returned", "thrown"}
    /\ ExecuteLLMAgain(p, latency)

NextTwoRuns ==
    \/ \E p \in RunPrompts, l \in TwoCallLatencies : ExecuteLLM(p, l)
    \/ \E p \in RunPrompts, l \in TwoCallLatencies : ExecuteLLMNext(p, l)
    \/ \E k \in 1..Len(apiCalls), o \in RunOutcomes : ApiSettles(k, o)
    \/ \E k \in 1..Len(timers) : TimeoutFires(k)
    \/ \E i \in 1..Len(sleeps), l \in TwoCallLatencies : SleepFires(i, l)
    \/ Switch

SpecTwoRuns == Init /\ [][NextTwoRuns]_vars

(***************************************************************************)
(* One executeLLM call under an event loop that runs every event that is   *)
(* due: a pending timer fires when it is due, and so does the settlement   *)
(* of a provider call that answers at all (a call that never answers has   *)
(* no such event).                                                         *)
(***************************************************************************)
TimersFire ==
    \/ \E k \in 1..Len(timers) : TimeoutFires(k)
    \/ \E i \in 1..Len(sleeps), l \in Latencies : SleepFires(i, l)

ProviderAnswers == \E k \in 1..Len(apiCalls), o \in TwoCallOutcomes : ApiSettles(k, o)

NextLive ==
    \/ \E p \in TwoCallPrompts, l \in Latencies : ExecuteLLM(p, l)
    \/ ProviderAnswers
    \/ TimersFire

SpecLive == Init /\ [][NextLive]_vars /\ WF_vars(TimersFire) /\ WF_vars(ProviderAnswers)

SpecConfigured == InitConfigured /\ [][Next]_vars

(***************************************************************************)
(* One executeLLM call with provider calls that answer shortly before the  *)
(* timeout, so that the timer of an attempt is still pending during the    *)
(* backoff sleep that follows the attempt and during the next attempt.     *)
(***************************************************************************)
LateLatencies == {200, 29500, 31500}

NextLateTimers ==
    \/ \E p \in TwoCallPrompts, l \in LateLatencies : ExecuteLLM(p, l)
    \/ \E k \in 1..Len(apiCalls), o \in TwoCallOutcomes : ApiSettles(k, o)
    \/ \E k \in 1..Len(timers) : TimeoutFires(k)
    \/ \E i \in 1..Len(sleeps), l \in LateLatencies : SleepFires(i, l)

SpecLateTimers == Init /\ [][NextLateTimers]_vars

(***************************************************************************)
(* The errors an attempt can fail with, each as executeLLM's catch block   *)
(* receives and classifies it: a provider error after the catch block of   *)
(* callGeminiAPI, the empty-response error after the same catch block, and *)
(* the timeout error of executeWithTimeout.  classified records the        *)
(* errors classified so far.                                               *)
(***************************************************************************)
\* Messages of provider errors: with a marker, with a marker in another
\* letter case, with a non-retryable substring in some letter case, and
\* with neither.
ProviderErrorMessages ==
    FatalErrors \cup TransientErrors
        \cup {"api_key_invalid", "Permission_Denied", "quota_exceeded", "safety",
              "INVALID API KEY", "invalid apikey", "nvalid api key", "Quota  exceeded",
              "the prompt cannot be emptY", "503 Service Unavailable"}

\* Values of timeoutMs.
TimeoutValues == {1, 5000, 30000, 600000}

\* The number of errors classified in one behaviour.
MaxClassified == 2

Classified(kind, raw, message) ==
    [kind |-> kind, raw |-> raw, message |-> message,
     nonRetryable |-> IsNonRetryableError(message)]

\* The provider rejects with errorMessage.
ClassifyProviderError(errorMessage) ==
    /\ Len(classified) < MaxClassified
    /\ classified' = Append(classified,
                            Classified("provider", errorMessage,
                                       CallGeminiAPI([kind |-> "error",
                                                      value |-> errorMessage]).value))
    /\ UNCHANGED <<config, apiKey, retryConfig, pc, prompt, attempt, lastError, outcome,
                   now, timers, apiCalls, races, sleeps, log, parses, parked, planner>>

\* The provider answers with a text that is empty or blank.
ClassifyEmptyResponse(text) ==
    /\ Len(classified) < MaxClassified
    /\ IsBlank(text)
    /\ classified' = Append(classified,
                            Classified("empty", text,
                                       CallGeminiAPI([kind |-> "text", value |-> text]).value))
    /\ UNCHANGED <<config, apiKey, retryConfig, pc, prompt, attempt, lastError, outcome,
                   now, timers, apiCalls, races, sleeps, log, parses, parked, planner>>

\* The timer of an attempt fires under a policy whose timeoutMs is ms.
ClassifyTimeout(ms) ==
    /\ Len(classified) < MaxClassified
    /\ classified' = Append(classified,
                            Classified("timeout", ToString(ms),
                                       TimeoutMessage([retryConfig EXCEPT !.timeoutMs = ms])))
    /\ UNCHANGED <<config, apiKey, retryConfig, pc, prompt, attempt, lastError, outcome,
                   now, timers, apiCalls, races, sleeps, log, parses, parked, planner>>

NextClassifier ==
    \/ \E m \in ProviderErrorMessages : ClassifyProviderError(m)
    \/ \E t \in ProviderTexts : ClassifyEmptyResponse(t)
    \/ \E ms \in TimeoutValues : ClassifyTimeout(ms)

SpecClassifier == Init /\ [][NextClassifier]_vars

(***************************************************************************)
(* The response parser, parse(rawText): three gates in sequence.  Numbers  *)
(* are held in thousandths (450 is 450000, 0.5 is 500), which represents   *)
(* every decimal literal of up to three fractional digits exactly.         *)
(***************************************************************************)
Digits == "0123456789"

IsDigit(c) == Len(c) = 1 /\ Includes(Digits, c)

DigitValue(c) == (CHOOSE i \in 1..Len(Digits) : CharAt(Digits, i) = c) - 1

IsLetter(c) ==
    Len(c) = 1 /\ (Includes(UpperCaseLetters, c) \/ Includes(LowerCaseLetters, c))

\* The index of the first character from i on that is not whitespace.
SkipWhiteSpace(s, i) ==
    IF i > Len(s) THEN i
    ELSE CHOOSE j \in i..(Len(s) + 1) :
             /\ j > Len(s) \/ CharAt(s, j) \notin WhiteSpace
             /\ \A k \in i..(j - 1) : CharAt(s, k) \in WhiteSpace

\* The index of the first occurrence of character c from i on, or 0.
IndexOf(s, c, i) ==
    LET at == {j \in i..Len(s) : CharAt(s, j) = c}
    IN  IF at = {} THEN 0 ELSE MinOf(at)

\* The index of the brace closing the object opened before i, or 0: depth
\* counts the open braces, and braces inside a string literal do not count.
\* Every double quote opens or closes a string literal, so a character is
\* inside one when the quotes before it are odd in number.
MatchBrace(s, i, depth, inString) ==
    LET Quotes(j) == Cardinality({k \in i..(j - 1) : CharAt(s, k) = "\""})
        InString(j) == (Quotes(j) % 2 = 1) # inString
        Braces(c, j) == Cardinality({k \in i..(j - 1) : CharAt(s, k) = c /\ ~InString(k)})
        Closing(j) ==
            /\ CharAt(s, j) = "}"
            /\ ~InString(j)
            /\ depth + Braces("{", j) - Braces("}", j) = 1
        closing == {j \in i..Len(s) : Closing(j)}
    IN  IF closing = {} THEN 0 ELSE MinOf(closing)

\* Structural gate, first part: the first balanced object of the text.
ExtractObject(s) ==
    LET open == IndexOf(s, "{", 1)
        close == IF open = 0 THEN 0 ELSE MatchBrace(s, open + 1, 1, FALSE)
    IN  IF open = 0 \/ close = 0
        THEN [found |-> FALSE, text |-> ""]
        ELSE [found |-> TRUE, text |-> SubSeq(s, open, close)]

\* The index after the run of digits that starts at i.
SkipDigits(s, i) ==
    IF i > Len(s) THEN i
    ELSE CHOOSE j \in i..(Len(s) + 1) :
             /\ j > Len(s) \/ ~IsDigit(CharAt(s, j))
             /\ \A k \in i..(j - 1) : IsDigit(CharAt(s, k))

\* The index after the run of letters that starts at i.
SkipLetters(s, i) ==
    IF i > Len(s) THEN i
    ELSE CHOOSE j \in i..(Len(s) + 1) :
             /\ j > Len(s) \/ ~IsLetter(CharAt(s, j))
             /\ \A k \in i..(j - 1) : IsLetter(CharAt(s, k))

\* The value of a run of digits, most significant first.
RECURSIVE DigitsToNat(_, _)
DigitsToNat(d, acc) ==
    IF Len(d) = 0 THEN acc
    ELSE DigitsToNat(SubSeq(d, 2, Len(d)), acc * 10 + DigitValue(CharAt(d, 1)))

\* a conversion that drops the fractional digits
NumberFromDigitsTruncating(negative, intDigits, fracDigits) ==
    (IF negative THEN 0 - 1 ELSE 1) * DigitsToNat(intDigits, 0) * 1000

\* The number written as intDigits.fracDigits, in thousandths.
NumberFromDigits(negative, intDigits, fracDigits) ==
    LET padded == SubSeq(fracDigits \o "000", 1, 3)
    IN  (IF negative THEN 0 - 1 ELSE 1)
            * (DigitsToNat(intDigits, 0) * 1000 + DigitsToNat(padded, 0))

NoValue == [type |-> "none", num |-> 0, str |-> ""]

ValueRead(value, next) == [ok |-> TRUE, value |-> value, next |-> next]

NoValueRead(i) == [ok |-> FALSE, value |-> NoValue, next |-> i]

\* The string literal opened at index i and closed at index close.
StringValue(s, i, close) ==
    IF close = 0 THEN NoValueRead(i)
    ELSE ValueRead([type |-> "string", num |-> 0, str |-> SubSeq(s, i + 1, close - 1)],
                   close + 1)

\* The nested object opened at index i and closed at index close.
ObjectValue(i, close) ==
    IF close = 0 THEN NoValueRead(i)
    ELSE ValueRead([type |-> "object", num |-> 0, str |-> ""], close + 1)

\* The number whose integer digits are s[j..intEnd - 1] and whose fraction,
\* if there is one, ends before fracEnd.
NumberValue(s, negative, j, intEnd, fracEnd) ==
    ValueRead([type |-> "number",
               num |-> NumberFromDigits(negative, SubSeq(s, j, intEnd - 1),
                                        IF fracEnd > intEnd
                                        THEN SubSeq(s, intEnd + 1, fracEnd - 1)
                                        ELSE ""),
               str |-> ""],
              fracEnd)

\* The index after the fraction that follows the integer digits ending
\* before intEnd, or intEnd when no fraction follows.
FractionEnd(s, intEnd) ==
    IF /\ intEnd + 1 <= Len(s)
       /\ CharAt(s, intEnd) = "."
       /\ IsDigit(CharAt(s, intEnd + 1))
    THEN SkipDigits(s, intEnd + 1)
    ELSE intEnd

\* The bare word that starts at index i, its sign included, and ends before
\* wordEnd.
WordValue(i, negative, word, wordEnd) ==
    IF word = "NaN" /\ ~negative
    THEN ValueRead([type |-> "nan", num |-> 0, str |-> ""], wordEnd)
    ELSE IF word = "Infinity"
    THEN ValueRead([type |-> "infinity", num |-> 0, str |-> ""], wordEnd)
    ELSE IF word \in {"null", "true", "false"} /\ ~negative
    THEN ValueRead([type |-> word, num |-> 0, str |-> ""], wordEnd)
    ELSE NoValueRead(i)

\* The character at index i, or nothing after the end of the text.
CharOrNone(s, i) == IF i <= Len(s) THEN CharAt(s, i) ELSE ""

\* The unsigned number or word that starts at index j with character d, the
\* value having started at index i.
UnsignedValue(s, i, negative, j, d) ==
    IF IsDigit(d)
    THEN NumberValue(s, negative, j, SkipDigits(s, j), FractionEnd(s, SkipDigits(s, j)))
    ELSE IF IsLetter(d)
    THEN WordValue(i, negative, SubSeq(s, j, SkipLetters(s, j) - 1), SkipLetters(s, j))
    ELSE NoValueRead(i)

\* The value that starts at index i with character c.
ValueAt(s, i, c) ==
    IF c = "\"" THEN StringValue(s, i, IndexOf(s, "\"", i + 1))
    ELSE IF c = "{" THEN ObjectValue(i, MatchBrace(s, i + 1, 1, FALSE))
    ELSE IF c = "-" THEN UnsignedValue(s, i, TRUE, i + 1, CharOrNone(s, i + 1))
    ELSE UnsignedValue(s, i, FALSE, i, c)

\* The value that starts at index i of the object text: a number, a string
\* literal, a nested object or a bare word (NaN, Infinity, null, true,
\* false).  ok is FALSE when no value can be read there.
ParseValue(s, i) == ValueAt(s, i, CharOrNone(s, i))

NoMembers == [ok |-> FALSE, members |-> <<>>]

\* The members of the object text from index i on, i being where a key is
\* expected: "key" : value, separated by commas and closed by "}".
RECURSIVE ParseMembers(_, _, _)

\* After a member: the object ends, or a comma and the next member follow.
MemberEnd(s, after, members) ==
    IF after > Len(s) THEN NoMembers
    ELSE IF CharAt(s, after) = "}"
    THEN IF after = Len(s) THEN [ok |-> TRUE, members |-> members] ELSE NoMembers
    ELSE IF CharAt(s, after) = ","
    THEN ParseMembers(s, after + 1, members)
    ELSE NoMembers

MemberValue(s, key, val, acc) ==
    IF ~val.ok THEN NoMembers
    ELSE MemberEnd(s, SkipWhiteSpace(s, val.next),
                   Append(acc, [key |-> key.value.str, value |-> val.value]))

MemberColon(s, key, colon, acc) ==
    IF colon > Len(s) \/ CharAt(s, colon) # ":" THEN NoMembers
    ELSE MemberValue(s, key, ParseValue(s, SkipWhiteSpace(s, colon + 1)), acc)

MemberKey(s, key, acc) ==
    IF ~key.ok \/ key.value.type # "string" THEN NoMembers
    ELSE MemberColon(s, key, SkipWhiteSpace(s, key.next), acc)

ParseMembers(s, i, acc) == MemberKey(s, ParseValue(s, SkipWhiteSpace(s, i)), acc)

\* Structural gate, second part: the members of the extracted object.
ParseObject(text) ==
    LET first == SkipWhiteSpace(text, 2)
    IN  IF first = Len(text) /\ CharAt(text, first) = "}"
        THEN [ok |-> TRUE, members |-> <<>>]
        ELSE ParseMembers(text, 2, <<>>)

RequiredFields == <<"flight", "roomsPerNight", "foodDaily">>

\* The largest value a field may have, in dollars.
MaxFieldValue == 100000

\* The value below which a field is flagged as suspiciously low, in dollars.
LowFieldValue == 1

\* a lookup that substitutes 0 for a missing member
LookupWithDefault(members, key) ==
    LET at == {i \in 1..Len(members) : members[i].key = key}
    IN  IF at = {} THEN [type |-> "number", num |-> 0, str |-> ""]
        ELSE members[MaxOf(at)].value

\* The value of the member named key, the last one when the key is repeated.
Lookup(members, key) ==
    LET at == {i \in 1..Len(members) : members[i].key = key}
    IN  IF at = {} THEN NoValue ELSE members[MaxOf(at)].value

ParseFailure(kind, fields, value, bound, excerpt) ==
    [kind |-> kind, fields |-> fields, value |-> value, bound |-> bound,
     excerpt |-> excerpt]

\* The members of the extracted object, or the offending excerpt.
StructureOf(rawText, object, parsed) ==
    [ok |-> parsed.ok, members |-> parsed.members,
     excerpt |-> IF object.found THEN object.text ELSE rawText]

MembersOf(rawText, object) ==
    StructureOf(rawText, object,
                IF object.found THEN ParseObject(object.text) ELSE NoMembers)

\* Structural gate: the members of the first balanced object of the text,
\* or the offending excerpt.
Structure(rawText) == MembersOf(rawText, ExtractObject(rawText))

\* Completeness gate: the required fields that are not finite numbers.
Incomplete(members) ==
    LET NotNumeric(f) == Lookup(members, f).type # "number"
    IN  SelectSeq(RequiredFields, NotNumeric)

\* a range test without the lower bound
InRangeNoLowerBound(num) == num <= MaxFieldValue * 1000

\* a range test that refuses amounts under one dollar
InRangeFromOneDollar(num) == LowFieldValue * 1000 <= num /\ num <= MaxFieldValue * 1000

\* 0 <= value <= 100000, on thousandths.
InRange(num) == 0 <= num /\ num <= MaxFieldValue * 1000

\* Range gate: the required fields whose value is out of range.
Outside(members) ==
    LET OutOfRange(f) == ~InRange(Lookup(members, f).num)
    IN  SelectSeq(RequiredFields, OutOfRange)

\* The range error for field f: the field, its value and the bound it
\* violates.
RangeFailure(members, f) ==
    LET num == Lookup(members, f).num
    IN  ParseFailure("RangeViolationError", <<f>>, num,
                     IF num > MaxFieldValue * 1000 THEN MaxFieldValue * 1000 ELSE 0, "")

\* The estimate of an object that passed the three gates, with its
\* advisory warnings.
Estimate(members, t) ==
    LET Value(f) == Lookup(members, f)
        Low(f) == Value(f).num < LowFieldValue * 1000
    IN  [kind |-> "StructuredEstimate",
         flight |-> Value("flight").num,
         roomsPerNight |-> Value("roomsPerNight").num,
         foodDaily |-> Value("foodDaily").num,
         warnings |->
             [f \in {g \in {"flight", "roomsPerNight", "foodDaily"} : Low(g)}
                 |-> "suspiciously low"]
             @@ (IF Value("roomsPerNight").num > Value("flight").num
                 THEN [w \in {"lodging"} |-> "exceeds flight"]
                 ELSE <<>>),
         generatedAt |-> t]

\* the range gate applied before the completeness gate
GatesRangeFirst(structure, t) ==
    IF ~structure.ok
    THEN ParseFailure("MalformedResponseError", <<>>, 0, 0, structure.excerpt)
    ELSE IF Outside(structure.members) # <<>>
    THEN RangeFailure(structure.members, Outside(structure.members)[1])
    ELSE IF Incomplete(structure.members) # <<>>
    THEN ParseFailure("IncompleteFieldsError", Incomplete(structure.members), 0, 0, "")
    ELSE Estimate(structure.members, t)

\* The three gates in sequence, the first that fails deciding the error.
Gates(structure, t) ==
    IF ~structure.ok
    THEN ParseFailure("MalformedResponseError", <<>>, 0, 0, structure.excerpt)
    ELSE IF Incomplete(structure.members) # <<>>
    THEN ParseFailure("IncompleteFieldsError", Incomplete(structure.members), 0, 0, "")
    ELSE IF Outside(structure.members) # <<>>
    THEN RangeFailure(structure.members, Outside(structure.members)[1])
    ELSE Estimate(structure.members, t)

\* parse(rawText) at time t: the estimate, or the error of the first gate
\* that fails.
Parse(rawText, t) == Gates(Structure(rawText), t)

\* Raw texts handed to the parser; a code fence is written with tildes.
RawTexts ==
    {"{\"flight\": 450, \"roomsPerNight\": 120, \"foodDaily\": 60}",
     "Here is the estimate: {\"flight\": 450, \"roomsPerNight\": 120, \"foodDaily\": 60} Enjoy your trip!",
     "~~~json\n{\n  \"flight\": 450,\n  \"roomsPerNight\": 120,\n  \"foodDaily\": 60\n}\n~~~",
     "Sure. {\"foodDaily\":60.25,\"flight\":1200.5,\"roomsPerNight\":0} and {\"flight\": 1}",
     "{\"flight\": 100000, \"roomsPerNight\": 0.5, \"foodDaily\": 0, \"note\": \"a {brace}\"}",
     "{\"flight\": 450, \"roomsPerNight\": \"expensive\", \"foodDaily\": 60}",
     "{\"flight\": 450, \"roomsPerNight\": 120, \"foodDaily\": 250000}",
     "{\"flight\": -5, \"roomsPerNight\": 120, \"foodDaily\": 60}",
     "{\"flight\": NaN, \"roomsPerNight\": Infinity}",
     "{\"flight\": \"n/a\", \"roomsPerNight\": 120, \"foodDaily\": 100000.001}",
     "{\"flight\": 450, \"foodDaily\": 60}",
     "{\"flight\": 100000.001, \"roomsPerNight\": 120, \"foodDaily\": -1}",
     "I cannot help with that request.",
     "{\"flight\": 450, \"roomsPerNight\": 120",
     "{\"flight\": 250000, \"roomsPerNight\": \"x\"",
     ""}

\* The number of parse calls of one behaviour.
MaxParses == 3

\* a parser built on one shared stateful matcher, which finds nothing on
\* every second call
ParseTextSharedMatcher(rawText) ==
    /\ Len(parses) < MaxParses
    /\ parses' = Append(parses,
                        [text |-> rawText,
                         result |-> IF Len(parses) % 2 = 1
                                    THEN ParseFailure("MalformedResponseError", <<>>, 0, 0,
                                                      rawText)
                                    ELSE Parse(rawText, Len(parses) + 1)])
    /\ UNCHANGED <<classified, config, apiKey, retryConfig, pc, prompt, attempt, lastError, outcome,
                   now, timers, apiCalls, races, sleeps, log, parked, planner>>

\* One call of parse: the call and its result are appended to the record
\* of calls.
ParseText(rawText) ==
    /\ Len(parses) < MaxParses
    /\ parses' = Append(parses,
                        [text |-> rawText, result |-> Parse(rawText, Len(parses) + 1)])
    /\ UNCHANGED <<classified, config, apiKey, retryConfig, pc, prompt, attempt, lastError, outcome,
                   now, timers, apiCalls, races, sleeps, log, parked, planner>>

NextParser == \E rawText \in RawTexts : ParseText(rawText)

SpecParser == Init /\ [][NextParser]_vars

(***************************************************************************)
(* The TripCostEstimation concept: travel plans, their necessities and     *)
(* their cost estimates.  planner.plans maps the identifiers of the        *)
(* existing plans to the plans, planner.estimates holds the stored         *)
(* CostEstimates, oldest first, and planner.reply what the last call       *)
(* returned.  Dates are day numbers and amounts are in thousandths.        *)
(***************************************************************************)
Users == {1, 2}

\* The current date and the dates a user selects.
Today == 1

TravelDates == {<<1, 3>>, <<2, 5>>}

DefaultNecessity == [accommodation |-> TRUE, diningFlag |-> TRUE]

\* The number of plans created and of estimates stored in one behaviour.
MaxPlans == 1

MaxEstimates == 2

\* What the provider's text can be when generateAICostEstimate asks for
\* an estimate.
EstimateTexts ==
    {"Here is the estimate: {\"flight\": 450, \"roomsPerNight\": 120, \"foodDaily\": 60} Enjoy your trip!",
     "Sure. {\"foodDaily\":60.25,\"flight\":1200.5,\"roomsPerNight\":0} and {\"flight\": 1}",
     "{\"flight\": 450, \"roomsPerNight\": 120, \"foodDaily\": 250000}"}

\* What parse makes of each of these texts, the time of the call left open.
ParsedEstimateTexts == [rawText \in EstimateTexts |-> Parse(rawText, 0)]

\* The result of parse stamped with the time of the call.
Stamped(result, t) ==
    IF result.kind = "StructuredEstimate" THEN [result EXCEPT !.generatedAt = t] ELSE result

\* travelPlan exists and belongs to user.
Owns(user, plan) == plan \in DOMAIN planner.plans /\ planner.plans[plan].user = user

\* getTravelPlan(plan): the plan, or nothing.
GetTravelPlan(plan) ==
    IF plan \in DOMAIN planner.plans THEN <<planner.plans[plan]>> ELSE <<>>

\* The stored estimates of the plan, oldest first.
EstimatesOf(plan) ==
    LET OfPlan(e) == e.travelPlanID = plan
    IN  SelectSeq(planner.estimates, OfPlan)

\* getCostEstimateByPlan(plan): the latest estimate of the plan, or nothing.
GetCostEstimateByPlan(plan) ==
    LET of == EstimatesOf(plan)
    IN  IF of = <<>> THEN <<>> ELSE <<of[Len(of)]>>

\* The number of nights of a plan.
Duration(plan) == plan.toDate - plan.fromDate

\* getCostBreakdown: the three parts of the cost and their sum.
GetCostBreakdown(plan, estimate) ==
    LET accommodation == estimate.roomsPerNight * Duration(plan)
        food == estimate.foodDaily * Duration(plan)
    IN  [durationDays |-> Duration(plan), flight |-> estimate.flight,
         accommodation |-> accommodation, food |-> food,
         total |-> estimate.flight + accommodation + food]

\* a total that counts the days of the trip, not its nights
TotalCostInclusiveDays(plan, estimate) ==
    estimate.flight + (Duration(plan) + 1) * (estimate.roomsPerNight + estimate.foodDaily)

\* The total estimateCost returns.
TotalCost(plan, estimate) ==
    estimate.flight + Duration(plan) * (estimate.roomsPerNight + estimate.foodDaily)

\* The reply of a call whose requirement does not hold.
Refused(op, plan) == Reply(op, FALSE, 0, 0, <<>>, <<>>)

\* createTravelPlan(user, fromCity, toCity, fromDate, toDate).
CreateTravelPlan(user, fromCity, toCity, dates) ==
    /\ planner.created < MaxPlans
    /\ IF dates[2] >= dates[1] /\ dates[1] > Today /\ dates[2] > Today
       THEN LET id == planner.created + 1
            IN  planner' =
                    [planner EXCEPT
                        !.plans = [q \in DOMAIN planner.plans \cup {id} |->
                                      IF q = id
                                      THEN [user |-> user, fromCity |-> fromCity,
                                            toCity |-> toCity, fromDate |-> dates[1],
                                            toDate |-> dates[2],
                                            necessity |-> DefaultNecessity]
                                      ELSE planner.plans[q]],
                        !.created = id,
                        !.reply = Reply("createTravelPlan", TRUE, id, 0, <<>>, <<>>)]
       ELSE planner' = [planner EXCEPT !.reply = Refused("createTravelPlan", 0)]
    /\ UNCHANGED <<classified, config, apiKey, retryConfig, pc, prompt, attempt, lastError, outcome,
                   now, timers, apiCalls, races, sleeps, log, parses, parked>>

\* a deletion that leaves the estimates of the plan behind
DeleteTravelPlanKeepEstimates(user, plan) ==
    /\ IF Owns(user, plan)
       THEN planner' =
                [planner EXCEPT
                    !.plans = [q \in DOMAIN planner.plans \ {plan} |-> planner.plans[q]],
                    !.reply = Reply("deleteTravelPlan", TRUE, plan, Len(EstimatesOf(plan)),
                                     <<>>, <<>>)]
       ELSE planner' = [planner EXCEPT !.reply = Refused("deleteTravelPlan", plan)]
    /\ planner' # planner
    /\ UNCHANGED <<classified, config, apiKey, retryConfig, pc, prompt, attempt, lastError, outcome,
                   now, timers, apiCalls, races, sleeps, log, parses, parked>>

\* deleteTravelPlan(user, plan); the reply records how many estimates the
\* plan had.
DeleteTravelPlan(user, plan) ==
    /\ IF Owns(user, plan)
       THEN LET OfOther(e) == e.travelPlanID # plan
            IN  planner' =
                    [planner EXCEPT
                        !.plans = [q \in DOMAIN planner.plans \ {plan} |->
                                      planner.plans[q]],
                        !.estimates = SelectSeq(planner.estimates, OfOther),
                        !.reply = Reply("deleteTravelPlan", TRUE, plan,
                                         Len(EstimatesOf(plan)), <<>>, <<>>)]
       ELSE planner' = [planner EXCEPT !.reply = Refused("deleteTravelPlan", plan)]
    /\ planner' # planner
    /\ UNCHANGED <<classified, config, apiKey, retryConfig, pc, prompt, attempt, lastError, outcome,
                   now, timers, apiCalls, races, sleeps, log, parses, parked>>

\* updateNecessity(user, plan, accommodation, diningFlag); the reply records
\* the necessity the plan had.
UpdateNecessity(user, plan, accommodation, diningFlag) ==
    /\ IF Owns(user, plan)
       THEN planner' =
                [planner EXCEPT
                    !.plans[plan].necessity =
                        [accommodation |-> accommodation, diningFlag |-> diningFlag],
                    !.reply = Reply("updateNecessity", TRUE, plan, 0,
                                     <<planner.plans[plan].necessity>>, <<>>)]
       ELSE planner' = [planner EXCEPT !.reply = Refused("updateNecessity", plan)]
    /\ planner' # planner
    /\ UNCHANGED <<classified, config, apiKey, retryConfig, pc, prompt, attempt, lastError, outcome,
                   now, timers, apiCalls, races, sleeps, log, parses, parked>>

\* a reset that restores the accommodation flag only
ResetNecessityAccommodationOnly(user, plan) ==
    /\ IF Owns(user, plan)
       THEN planner' =
                [planner EXCEPT
                    !.plans[plan].necessity.accommodation = DefaultNecessity.accommodation,
                    !.reply = Reply("resetNecessity", TRUE, plan, 0,
                                     <<planner.plans[plan].necessity>>, <<>>)]
       ELSE planner' = [planner EXCEPT !.reply = Refused("resetNecessity", plan)]
    /\ planner' # planner
    /\ UNCHANGED <<classified, config, apiKey, retryConfig, pc, prompt, attempt, lastError, outcome,
                   now, timers, apiCalls, races, sleeps, log, parses, parked>>

\* resetNecessity(user, plan); the reply records the necessity the plan had.
ResetNecessity(user, plan) ==
    /\ IF Owns(user, plan)
       THEN planner' =
                [planner EXCEPT
                    !.plans[plan].necessity = DefaultNecessity,
                    !.reply = Reply("resetNecessity", TRUE, plan, 0,
                                     <<planner.plans[plan].necessity>>, <<>>)]
       ELSE planner' = [planner EXCEPT !.reply = Refused("resetNecessity", plan)]
    /\ planner' # planner
    /\ UNCHANGED <<classified, config, apiKey, retryConfig, pc, prompt, attempt, lastError, outcome,
                   now, timers, apiCalls, races, sleeps, log, parses, parked>>

\* The planner after generateAICostEstimate(user, plan, llm) parsed the
\* provider's text: the estimate is stored as a new CostEstimate of the plan
\* and returned; a rejected text stores nothing.
StoreEstimate(user, plan, parsed) ==
    IF Owns(user, plan) /\ parsed.kind = "StructuredEstimate"
    THEN [planner EXCEPT
             !.estimates = Append(planner.estimates,
                                  [travelPlanID |-> plan, flight |-> parsed.flight,
                                   roomsPerNight |-> parsed.roomsPerNight,
                                   foodDaily |-> parsed.foodDaily,
                                   lastUpdated |-> parsed.generatedAt]),
             !.reply = Reply("generateAICostEstimate", TRUE, plan, 0, <<>>,
                             <<[travelPlanID |-> plan, flight |-> parsed.flight,
                                roomsPerNight |-> parsed.roomsPerNight,
                                foodDaily |-> parsed.foodDaily,
                                lastUpdated |-> parsed.generatedAt]>>)]
    ELSE [planner EXCEPT !.reply = Refused("generateAICostEstimate", plan)]

\* generateAICostEstimate(user, plan, llm), the provider's text being
\* rawText.
GenerateAICostEstimate(user, plan, rawText) ==
    /\ Len(planner.estimates) < MaxEstimates
    /\ planner' = StoreEstimate(user, plan,
                                Stamped(ParsedEstimateTexts[rawText],
                                        Len(planner.estimates) + 1))
    /\ planner' # planner
    /\ UNCHANGED <<classified, config, apiKey, retryConfig, pc, prompt, attempt, lastError, outcome,
                   now, timers, apiCalls, races, sleeps, log, parses, parked>>

\* estimateCost(user, plan): the total of the latest estimate of the plan.
EstimateCost(user, plan) ==
    /\ IF Owns(user, plan) /\ GetCostEstimateByPlan(plan) # <<>>
       THEN planner' =
                [planner EXCEPT
                    !.reply = Reply("estimateCost", TRUE, plan,
                                     TotalCost(planner.plans[plan],
                                               GetCostEstimateByPlan(plan)[1]),
                                     <<>>, <<>>)]
       ELSE planner' = [planner EXCEPT !.reply = Refused("estimateCost", plan)]
    /\ planner' # planner
    /\ UNCHANGED <<classified, config, apiKey, retryConfig, pc, prompt, attempt, lastError, outcome,
                   now, timers, apiCalls, races, sleeps, log, parses, parked>>

PlanIds == 1..MaxPlans

NextPlanner ==
    \/ \E u \in Users, d \in TravelDates : CreateTravelPlan(u, "Paris", "Berlin", d)
    \/ \E u \in Users, p \in PlanIds : DeleteTravelPlan(u, p)
    \/ \E u \in Users, p \in PlanIds, a, d \in BOOLEAN : UpdateNecessity(u, p, a, d)
    \/ \E u \in Users, p \in PlanIds : ResetNecessity(u, p)
    \/ \E u \in Users, p \in PlanIds, t \in EstimateTexts : GenerateAICostEstimate(u, p, t)
    \/ \E u \in Users, p \in PlanIds : EstimateCost(u, p)

SpecPlanner == Init /\ [][NextPlanner]_vars

(***************************************************************************)
(* Vocabulary of the properties.                                           *)
(***************************************************************************)
Settled == pc \in {"returned", "thrown"}

\* The delays of the sleeps begun so far, in order.
Delays == [i \in 1..Len(sleeps) |-> sleeps[i].delay]

\* The message contains, in any letter case, one of the five substrings.
ContainsFatalSubstring(m) ==
    LET lower == ToLowerCase(m)
    IN  \/ Includes(lower, "invalid api key")
        \/ Includes(lower, "permission denied")
        \/ Includes(lower, "quota exceeded")
        \/ Includes(lower, "safety")
        \/ Includes(lower, "prompt cannot be empty")

\* Every message an attempt can fail with, and those of them that contain a
\* fatal substring.
AttemptMessages ==
    {"Gemini API error: " \o m :
        m \in TransientErrors \cup FatalErrors \cup {"LLM returned empty response"}}
        \cup {"Invalid API key provided",
              "API quota exceeded - please try again later",
              "Request blocked by safety filters - please modify your prompt",
              "Permission denied - check your API key permissions",
              "LLM request timed out after 30000ms"}

FatalAttemptMessages == {m \in AttemptMessages : ContainsFatalSubstring(m)}

\* The provider answered attempt k - 1 in time, with outcome o.
AnsweredWith(k, o) ==
    /\ k \in 1..Len(races)
    /\ races[k].by = "api"
    /\ apiCalls[k].raw = o

\* The provider-specific markers, each with its clarified message.
ClarifiedMessages ==
    {<<"API_KEY_INVALID", "Invalid API key provided">>,
     <<"QUOTA_EXCEEDED", "API quota exceeded - please try again later">>,
     <<"SAFETY", "Request blocked by safety filters - please modify your prompt">>,
     <<"PERMISSION_DENIED", "Permission denied - check your API key permissions">>}

\* The provider call of attempt k - 1 takes longer than the timeout.
TakesLongerThanTimeout(k) ==
    \/ apiCalls[k].settlesAt = Never
    \/ apiCalls[k].settlesAt - apiCalls[k].startedAt > retryConfig.timeoutMs

(***************************************************************************)
(* C1: for a prompt that is empty or made of whitespace only, executeLLM   *)
(* throws the empty-prompt error at once: no provider call is started, no  *)
(* timeout timer is created, no backoff sleep is begun, no attempt is      *)
(* consumed and no time passes.                                            *)
(***************************************************************************)
C1_EmptyPromptFailsImmediately ==
    (pc # "idle" /\ prompt \in {"", " ", " \n\t"}) =>
        /\ pc = "thrown"
        /\ outcome = [kind |-> "error", value |-> "Prompt cannot be empty or null"]
        /\ Len(apiCalls) = 0
        /\ Len(timers) = 0
        /\ Len(races) = 0
        /\ Len(sleeps) = 0
        /\ attempt = 0
        /\ lastError = <<>>
        /\ now = 0

C1_Witness ==
    /\ pc = "thrown"
    /\ prompt = " \n\t"
    /\ outcome.value = "Prompt cannot be empty or null"
    /\ Len(apiCalls) = 0

(***************************************************************************)
(* C2: one executeLLM call starts at most maxRetries + 1 provider calls,   *)
(* 4 with the defaults, whatever the outcomes of the attempts; the k-th    *)
(* call belongs to attempt k - 1, and attempts are indexed 0..maxRetries.  *)
(***************************************************************************)
C2_AtMostMaxRetriesPlusOneCalls ==
    /\ Len(apiCalls) <= retryConfig.maxRetries + 1
    /\ Len(apiCalls) <= 4
    /\ \A k \in 1..Len(apiCalls) :
          /\ apiCalls[k].attempt = k - 1
          /\ apiCalls[k].attempt \in 0..retryConfig.maxRetries

C2_Witness ==
    /\ Settled
    /\ Len(apiCalls) = 4
    /\ apiCalls[4].attempt = 3

(***************************************************************************)
(* C3: an attempt that fails with a message containing, in any letter      *)
(* case, "invalid api key", "permission denied", "quota exceeded",         *)
(* "safety" or "prompt cannot be empty" ends the retry loop: it is the     *)
(* last provider call, no sleep follows it, and the error thrown is        *)
(* "Non-retryable error: " followed by the message.  A provider that       *)
(* answers "quota exceeded" to every call is called exactly once.          *)
(***************************************************************************)
C3_NonRetryableAborts ==
    /\ \A k \in 1..Len(races) :
          races[k].state = "rejected" => races[k].value \in AttemptMessages
    /\ \A k \in 1..Len(races) :
          (races[k].state = "rejected" /\ races[k].value \in FatalAttemptMessages) =>
              /\ k = Len(apiCalls)
              /\ Len(sleeps) = k - 1
              /\ pc = "thrown"
              /\ outcome.kind = "error"
              /\ outcome.value = "Non-retryable error: " \o races[k].value
              /\ Includes(outcome.value, races[k].value)
    /\ (/\ Len(races) >= 1
        /\ \A k \in 1..Len(races) :
              AnsweredWith(k, [kind |-> "error", value |-> "quota exceeded"])) =>
           /\ Len(apiCalls) = 1
           /\ pc = "thrown"
           /\ outcome.value = "Non-retryable error: Gemini API error: quota exceeded"

C3_Witness ==
    /\ pc = "thrown"
    /\ Len(races) = 2
    /\ AnsweredWith(2, [kind |-> "error", value |-> "blocked: Safety"])
    /\ outcome.value = "Non-retryable error: Gemini API error: blocked: Safety"
    /\ Len(sleeps) = 1

(***************************************************************************)
(* C4: for a non-empty prompt, when the provider answers the first attempt *)
(* in time with a non-blank text, executeLLM makes exactly one provider    *)
(* call, begins no sleep and returns that text.                            *)
(***************************************************************************)
C4_FirstAttemptSuccess ==
    AnsweredWith(1, [kind |-> "text", value |-> " ok\n"]) =>
        /\ pc = "returned"
        /\ outcome = [kind |-> "value", value |-> " ok\n"]
        /\ Len(apiCalls) = 1
        /\ apiCalls[1].prompt = prompt
        /\ Len(sleeps) = 0
        /\ log = <<>>

C4_Witness ==
    /\ pc = "returned"
    /\ prompt = " estimate the trip\n"
    /\ AnsweredWith(1, [kind |-> "text", value |-> " ok\n"])
    /\ Len(apiCalls) = 1

(***************************************************************************)
(* C5: the delay slept after failed attempt k and before attempt k + 1 is  *)
(* min(baseDelayMs * 2^k, maxDelayMs): 1000, 2000, 4000 ms with the        *)
(* defaults, non-decreasing in k and never above maxDelayMs (10000 ms).    *)
(* Attempt k + 1 starts exactly when that delay has elapsed.               *)
(***************************************************************************)
C5_BackoffDelays ==
    /\ \A i \in 1..Len(sleeps) :
          LET k == i - 1
              exp == retryConfig.baseDelayMs * (2 ^ k)
          IN  /\ sleeps[i].after = k
              /\ sleeps[i].delay =
                    (IF exp <= retryConfig.maxDelayMs THEN exp ELSE retryConfig.maxDelayMs)
              /\ sleeps[i].delay = <<1000, 2000, 4000>>[i]
              /\ sleeps[i].delay <= 10000
              /\ sleeps[i].deadline = sleeps[i].createdAt + sleeps[i].delay
              /\ i > 1 => sleeps[i - 1].delay <= sleeps[i].delay
              /\ Len(apiCalls) > i => apiCalls[i + 1].startedAt = sleeps[i].deadline
    /\ Len(sleeps) <= 3

C5_Witness ==
    /\ Len(sleeps) = 3
    /\ Delays = <<1000, 2000, 4000>>
    /\ Len(apiCalls) = 4

(***************************************************************************)
(* C6: when the provider answers attempts 0 and 1 in time with a transient *)
(* error and attempt 2 with a non-blank text, executeLLM makes exactly 3   *)
(* provider calls, sleeps 1000 ms and then 2000 ms between them, and       *)
(* returns the text of attempt 2.                                          *)
(***************************************************************************)
C6_TwoTransientFailuresThenSuccess ==
    (/\ AnsweredWith(1, [kind |-> "error", value |-> "fetch failed"])
     /\ AnsweredWith(2, [kind |-> "error", value |-> "fetch failed"])
     /\ AnsweredWith(3, [kind |-> "text", value |-> " ok\n"])) =>
        /\ Len(apiCalls) = 3
        /\ Delays = <<1000, 2000>>
        /\ apiCalls[2].startedAt - apiCalls[1].settlesAt = 1000
        /\ apiCalls[3].startedAt - apiCalls[2].settlesAt = 2000
        /\ pc = "returned"
        /\ outcome = [kind |-> "value", value |-> " ok\n"]

C6_Witness ==
    /\ pc = "returned"
    /\ Len(apiCalls) = 3
    /\ AnsweredWith(1, [kind |-> "error", value |-> "fetch failed"])
    /\ AnsweredWith(2, [kind |-> "error", value |-> "fetch failed"])
    /\ AnsweredWith(3, [kind |-> "text", value |-> " ok\n"])

(***************************************************************************)
(* C7: a backoff sleep is only begun between two attempts: it follows the  *)
(* retryable failure of an attempt that is not the last one, and the next  *)
(* attempt starts when it ends.  No sleep follows the failure of attempt   *)
(* maxRetries, a success or a non-retryable failure, so a settled call has *)
(* one sleep less than provider calls.                                     *)
(***************************************************************************)
C7_SleepOnlyBetweenAttempts ==
    /\ \A i \in 1..Len(sleeps) :
          /\ sleeps[i].after = i - 1
          /\ sleeps[i].after < retryConfig.maxRetries
          /\ races[i].state = "rejected"
          /\ races[i].value \notin FatalAttemptMessages
          /\ sleeps[i].state = "pending" => (pc = "sleeping" /\ i = Len(sleeps))
          /\ sleeps[i].state = "fired" =>
                (Len(apiCalls) >= i + 1 /\ apiCalls[i + 1].startedAt = sleeps[i].deadline)
    /\ Settled =>
          Len(sleeps) = (IF Len(apiCalls) = 0 THEN 0 ELSE Len(apiCalls) - 1)
    /\ (Settled /\ Len(apiCalls) = retryConfig.maxRetries + 1) =>
          Len(sleeps) = retryConfig.maxRetries

C7_Witness ==
    /\ pc = "thrown"
    /\ Len(apiCalls) = 4
    /\ races[4].state = "rejected"
    /\ races[4].value \notin FatalAttemptMessages
    /\ Len(sleeps) = 3

(***************************************************************************)
(* C8: when every provider call takes longer than timeoutMs, executeLLM    *)
(* makes exactly maxRetries + 1 attempts (4 with the defaults), each ended *)
(* by its timeout, and then throws the aggregate error, which cites the    *)
(* attempt count maxRetries + 1.                                           *)
(***************************************************************************)
C8_AlwaysTimingOut ==
    (/\ Len(apiCalls) >= 1
     /\ \A k \in 1..Len(apiCalls) : TakesLongerThanTimeout(k)) =>
        /\ \A k \in 1..Len(races) : races[k].by \in {"none", "timer"}
        /\ Settled =>
              /\ Len(apiCalls) = retryConfig.maxRetries + 1
              /\ Len(apiCalls) = 4
              /\ \A k \in 1..Len(races) :
                    /\ races[k].by = "timer"
                    /\ races[k].value = "LLM request timed out after 30000ms"
              /\ pc = "thrown"
              /\ outcome.value =
                    "LLM request failed after 4 attempts. Last error: LLM request timed out after 30000ms"
              /\ Includes(outcome.value,
                          "after " \o ToString(retryConfig.maxRetries + 1) \o " attempts")

C8_Witness ==
    /\ pc = "thrown"
    /\ Len(apiCalls) = 4
    /\ \A k \in 1..4 : TakesLongerThanTimeout(k) /\ races[k].by = "timer"

(***************************************************************************)
(* C9: when all maxRetries + 1 attempts fail with retryable errors,        *)
(* executeLLM throws the aggregate error, whose message holds the attempt  *)
(* count maxRetries + 1 and the message of the error of the last attempt.  *)
(***************************************************************************)
C9_AggregateCitesLastError ==
    (/\ Settled
     /\ Len(races) = retryConfig.maxRetries + 1
     /\ \A k \in 1..Len(races) :
           races[k].state = "rejected" /\ races[k].value \notin FatalAttemptMessages) =>
        /\ pc = "thrown"
        /\ outcome.kind = "error"
        /\ outcome.value =
              "LLM request failed after " \o ToString(retryConfig.maxRetries + 1)
                  \o " attempts. Last error: " \o races[Len(races)].value
        /\ lastError = <<races[Len(races)].value>>

C9_Witness ==
    /\ pc = "thrown"
    /\ Len(races) = 4
    /\ races[1].value = "LLM request timed out after 30000ms"
    /\ races[3].value = "LLM request timed out after 30000ms"
    /\ races[4].value = "Gemini API error: fetch failed"
    /\ outcome.value =
          "LLM request failed after 4 attempts. Last error: Gemini API error: fetch failed"

(***************************************************************************)
(* C10: every attempt has its own timer, created when the attempt starts   *)
(* and due timeoutMs (30000 ms) later.  When the timer fires before the    *)
(* provider call settles, the attempt fails with the timeout message, the  *)
(* provider call stays in flight (it may still settle later), and the      *)
(* failure is retried: a sleep follows it, or the aggregate error when it  *)
(* was the last attempt.                                                   *)
(***************************************************************************)
C10_PerAttemptTimeout ==
    /\ Len(timers) = Len(apiCalls)
    /\ Len(races) = Len(apiCalls)
    /\ \A k \in 1..Len(timers) :
          /\ timers[k].createdAt = apiCalls[k].startedAt
          /\ timers[k].deadline = timers[k].createdAt + retryConfig.timeoutMs
          /\ timers[k].deadline - timers[k].createdAt = 30000
          /\ (timers[k].state = "fired" /\ apiCalls[k].settlesAt = Never) =>
                races[k].by = "timer"
          /\ (timers[k].state = "fired" /\ apiCalls[k].settlesAt > timers[k].deadline) =>
                races[k].by = "timer"
          /\ races[k].by = "timer" =>
                /\ timers[k].state = "fired"
                /\ races[k].state = "rejected"
                /\ races[k].value = "LLM request timed out after 30000ms"
                /\ \/ apiCalls[k].state = "inflight"
                   \/ /\ apiCalls[k].settlesAt # Never
                      /\ apiCalls[k].settlesAt >= timers[k].deadline
                      /\ now >= apiCalls[k].settlesAt
                /\ k <= retryConfig.maxRetries =>
                      /\ Len(sleeps) >= k
                      /\ sleeps[k].createdAt = timers[k].deadline
                /\ k = retryConfig.maxRetries + 1 =>
                      /\ pc = "thrown"
                      /\ outcome.value =
                            "LLM request failed after 4 attempts. Last error: LLM request timed out after 30000ms"

C10_Witness ==
    /\ Len(apiCalls) >= 2
    /\ races[1].by = "timer"
    /\ apiCalls[1].state = "fulfilled"
    /\ apiCalls[2].state = "inflight"
    /\ timers[2].state = "pending"
    /\ timers[2].createdAt > timers[1].deadline

(***************************************************************************)
(* C11: within one attempt, the first of the provider call and the timer   *)
(* to settle decides the outcome of the attempt: a race settled by the     *)
(* provider has the provider call's settlement, a race settled by the      *)
(* timer the timeout error.  The later settlement of the loser changes     *)
(* neither the settled race nor, once executeLLM has settled, its result.  *)
(***************************************************************************)
C11_FirstSettledWins ==
    /\ [](\A k \in 1..Len(races) :
            /\ races[k].by = "api" =>
                  /\ races[k].state = apiCalls[k].state
                  /\ races[k].value = apiCalls[k].value
                  /\ apiCalls[k].settlesAt - apiCalls[k].startedAt
                        <= timers[k].deadline - timers[k].createdAt
            /\ races[k].by = "timer" =>
                  /\ races[k].state = "rejected"
                  /\ races[k].value = "LLM request timed out after 30000ms"
                  /\ \/ apiCalls[k].settlesAt = Never
                     \/ apiCalls[k].settlesAt >= timers[k].deadline)
    /\ [][/\ \A k \in 1..Len(races) :
                races[k].state # "pending" => (Len(races') >= k /\ races'[k] = races[k])
          /\ pc \in {"returned", "thrown"} => (pc' = pc /\ outcome' = outcome)]_vars

C11_Witness ==
    /\ Len(races) = 2
    /\ races[1].by = "timer"
    /\ apiCalls[1].state = "fulfilled"
    /\ races[2].by = "api"
    /\ races[2].state = "fulfilled"
    /\ timers[2].state = "fired"
    /\ pc = "returned"
    /\ outcome.value = apiCalls[2].value

(***************************************************************************)
(* C12: the attempts of one executeLLM call are strictly sequential: the   *)
(* provider call of attempt k + 1 is started only after the race of        *)
(* attempt k has been rejected and the backoff sleep begun at that failure *)
(* has run its full delay; at most one race is unsettled at any time, and  *)
(* it is that of the latest attempt.                                       *)
(***************************************************************************)
C12_AttemptsSequential ==
    /\ \A k \in 1..Len(races) : races[k].state = "pending" => k = Len(races)
    /\ \A k \in 2..Len(apiCalls) :
          LET failedAt == IF races[k - 1].by = "api" THEN apiCalls[k - 1].settlesAt
                          ELSE timers[k - 1].deadline
          IN  /\ races[k - 1].state = "rejected"
              /\ races[k - 1].by \in {"api", "timer"}
              /\ sleeps[k - 1].state = "fired"
              /\ sleeps[k - 1].createdAt = failedAt
              /\ failedAt >= apiCalls[k - 1].startedAt
              /\ apiCalls[k].startedAt = failedAt + sleeps[k - 1].delay
              /\ apiCalls[k].startedAt > apiCalls[k - 1].startedAt
    /\ pc = "sleeping" => \A k \in 1..Len(races) : races[k].state = "rejected"

C12_Witness ==
    /\ Len(apiCalls) = 3
    /\ races[1].by = "api"
    /\ races[2].by = "timer"
    /\ races[3].state = "pending"
    /\ apiCalls[2].startedAt = apiCalls[1].settlesAt + 1000
    /\ apiCalls[3].startedAt = timers[2].deadline + 2000

(***************************************************************************)
(* C13: a provider answer whose text is empty or made of whitespace only   *)
(* fails the attempt with the wrapped empty-response error, which is       *)
(* retried like any other retryable failure: a sleep follows it, or the    *)
(* aggregate error when it was the last attempt.  executeLLM never returns *)
(* an empty or whitespace-only text.                                       *)
(***************************************************************************)
C13_EmptyResponseIsRetryableFailure ==
    /\ \A k \in 1..Len(races) :
          (\/ AnsweredWith(k, [kind |-> "text", value |-> ""])
           \/ AnsweredWith(k, [kind |-> "text", value |-> " \n"])) =>
              /\ races[k].state = "rejected"
              /\ races[k].value = "Gemini API error: LLM returned empty response"
              /\ k <= retryConfig.maxRetries =>
                    /\ Len(sleeps) >= k
                    /\ sleeps[k].createdAt = apiCalls[k].settlesAt
                    /\ sleeps[k].state = "fired" => Len(apiCalls) >= k + 1
              /\ k = retryConfig.maxRetries + 1 =>
                    /\ pc = "thrown"
                    /\ outcome.value =
                          "LLM request failed after 4 attempts. Last error: Gemini API error: LLM returned empty response"
    /\ pc = "returned" =>
          /\ outcome.kind = "value"
          /\ outcome.value \notin {"", " \n"}
          /\ \E i \in 1..Len(outcome.value) : CharAt(outcome.value, i) \notin {" ", "\n", "\t", "\r"}

C13_Witness ==
    /\ AnsweredWith(1, [kind |-> "text", value |-> " \n"])
    /\ AnsweredWith(2, [kind |-> "text", value |-> ""])
    /\ AnsweredWith(3, [kind |-> "text", value |-> " ok\n"])
    /\ Len(sleeps) = 2
    /\ pc = "returned"

(***************************************************************************)
(* C14: a provider error whose message contains API_KEY_INVALID,           *)
(* QUOTA_EXCEEDED, SAFETY or PERMISSION_DENIED reaches executeLLM with the *)
(* clarified message of that marker; each clarified message is             *)
(* non-retryable, so the attempt is the last one, no sleep follows it and  *)
(* the error thrown carries the clarified message.  When it happens at the *)
(* first attempt, exactly one provider call is made.                       *)
(***************************************************************************)
C14_MarkersClarifiedAndFatal ==
    \A k \in 1..Len(races), cm \in ClarifiedMessages :
        (/\ races[k].by = "api"
         /\ apiCalls[k].raw.kind = "error"
         /\ Includes(apiCalls[k].raw.value, cm[1])) =>
            /\ races[k].state = "rejected"
            /\ races[k].value = cm[2]
            /\ k = Len(apiCalls)
            /\ Len(sleeps) = k - 1
            /\ pc = "thrown"
            /\ outcome = [kind |-> "error", value |-> "Non-retryable error: " \o cm[2]]
            /\ races[1].by = "api" /\ apiCalls[1].raw.kind = "error"
                  /\ Includes(apiCalls[1].raw.value, cm[1]) => Len(apiCalls) = 1

C14_Witness ==
    /\ Len(apiCalls) = 1
    /\ AnsweredWith(1, [kind |-> "error", value |-> "[403] PERMISSION_DENIED"])
    /\ pc = "thrown"
    /\ outcome.value =
          "Non-retryable error: Permission denied - check your API key permissions"

(***************************************************************************)
(* C15: a provider error whose message contains none of the four markers   *)
(* reaches executeLLM wrapped as "Gemini API error: <message>".            *)
(***************************************************************************)
Unclassified(k) ==
    /\ k \in 1..Len(races)
    /\ races[k].by = "api"
    /\ apiCalls[k].raw.kind = "error"
    /\ \A cm \in ClarifiedMessages : ~Includes(apiCalls[k].raw.value, cm[1])

\* The failure of attempt k - 1 is retried: a sleep follows it and then the
\* next attempt, or the aggregate error when it was the last attempt.
Retried(k) ==
    /\ k <= retryConfig.maxRetries =>
          /\ Len(sleeps) >= k
          /\ sleeps[k].after = k - 1
          /\ sleeps[k].state = "fired" => Len(apiCalls) >= k + 1
    /\ k = retryConfig.maxRetries + 1 =>
          /\ pc = "thrown"
          /\ outcome.value =
                "LLM request failed after 4 attempts. Last error: " \o races[k].value

\* C15 as claimed: every such error is retryable.
C15_UnclassifiedAlwaysRetried ==
    \A k \in 1..Len(races) :
        Unclassified(k) =>
            /\ races[k].value = "Gemini API error: " \o apiCalls[k].raw.value
            /\ Retried(k)

\* C15 as amended: such an error is retried unless its message contains, in
\* any letter case, one of the five non-retryable substrings.
C15_UnclassifiedRetriedUnlessFatal ==
    \A k \in 1..Len(races) :
        Unclassified(k) =>
            /\ races[k].state = "rejected"
            /\ races[k].value = "Gemini API error: " \o apiCalls[k].raw.value
            /\ races[k].value \notin FatalAttemptMessages => Retried(k)

C15_Witness ==
    /\ Unclassified(1)
    /\ Unclassified(2)
    /\ apiCalls[2].raw.value = "fetch failed"
    /\ races[2].value = "Gemini API error: fetch failed"
    /\ Len(apiCalls) = 3
    /\ apiCalls[3].startedAt = apiCalls[2].settlesAt + 2000

(***************************************************************************)
(* C16 as claimed: each of maxRetries, baseDelayMs, maxDelayMs, timeoutMs  *)
(* given to the constructor is the value the invoker uses, and an option   *)
(* not given has its default 3 / 1000 / 10000 / 30000.                     *)
(***************************************************************************)
C16_OptionsOverridable ==
    LET Option(name, default) == IF name \in DOMAIN config THEN config[name] ELSE default
    IN  /\ retryConfig.maxRetries = Option("maxRetries", 3)
        /\ retryConfig.baseDelayMs = Option("baseDelayMs", 1000)
        /\ retryConfig.maxDelayMs = Option("maxDelayMs", 10000)
        /\ retryConfig.timeoutMs = Option("timeoutMs", 30000)
        /\ Len(apiCalls) <= Option("maxRetries", 3) + 1
        /\ \A k \in 1..Len(timers) :
              timers[k].deadline - timers[k].createdAt = Option("timeoutMs", 30000)

(***************************************************************************)
(* C16 as amended: the constructor takes the API key only; whatever retry  *)
(* options its argument carries, the invoker has the policy 3 / 1000 /     *)
(* 10000 / 30000 and uses it in its retry loop.                            *)
(***************************************************************************)
C16_PolicyIsAlwaysTheDefault ==
    /\ apiKey = config.apiKey
    /\ retryConfig =
          [maxRetries |-> 3, baseDelayMs |-> 1000, maxDelayMs |-> 10000, timeoutMs |-> 30000]
    /\ Len(apiCalls) <= 4
    /\ \A k \in 1..Len(timers) : timers[k].deadline - timers[k].createdAt = 30000
    /\ \A i \in 1..Len(sleeps) : sleeps[i].delay = 1000 * (2 ^ (i - 1))
    /\ (Settled /\ Len(races) >= 1 /\ \A k \in 1..Len(races) : races[k].by = "timer") =>
          Len(apiCalls) = 4

C16_Witness ==
    /\ "maxRetries" \in DOMAIN config
    /\ config.maxRetries = 1
    /\ config.timeoutMs = 5000
    /\ pc = "thrown"
    /\ Len(apiCalls) = 4
    /\ races[4].by = "timer"
    /\ timers[4].deadline - timers[4].createdAt = 30000

(***************************************************************************)
(* C17: the retry policy of the instance is the one set at construction    *)
(* and no step of an executeLLM call changes it, whether the call ends in  *)
(* a success, a non-retryable failure or exhausted retries.                *)
(***************************************************************************)
C17_PolicyNeverMutated ==
    /\ [](retryConfig =
            [maxRetries |-> 3, baseDelayMs |-> 1000, maxDelayMs |-> 10000,
             timeoutMs |-> 30000])
    /\ [][retryConfig' = retryConfig /\ apiKey' = apiKey]_vars

C17_Witness ==
    /\ pc = "thrown"
    /\ Len(races) = 4
    /\ \A k \in 1..4 : races[k].by = "timer"
    /\ timers[4].state = "fired"
    /\ retryConfig.timeoutMs = 30000
    /\ retryConfig = DefaultRetryConfig

(***************************************************************************)
(* C18: two executeLLM calls on one instance, the second made after the    *)
(* first has ended or while it is suspended, do not affect each other.     *)
(* Each call has its own attempts, numbered from 0 and made with its own   *)
(* prompt, its own timers, sleeps of 1000, 2000 and 4000 ms and last       *)
(* error, and its position and outcome are those that executeLLM running   *)
(* alone reaches with the call's prompt after the call's own attempts      *)
(* settled the way they did.                                               *)
(***************************************************************************)
\* The activation records of the calls made so far.
AllCalls == {Locals} \cup (IF parked = <<>> THEN {} ELSE {parked[1]})

\* Where executeLLM running alone with prompt p stands after its attempts
\* settled as rs, the last of them possibly still pending.
AloneAfter(p, rs) ==
    LET n == Len(rs)
        last == rs[n]
        before == IF n > 1 THEN <<rs[n - 1].value>> ELSE <<>>
        slept == SubSeq(<<1000, 2000, 4000>>, 1, n - 1)
    IN  IF Trim(p) = ""
        THEN [pc |-> "thrown",
              outcome |-> [kind |-> "error", value |-> "Prompt cannot be empty or null"],
              attempt |-> 0, lastError |-> <<>>, delays |-> <<>>]
        ELSE IF last.state = "pending"
        THEN [pc |-> "awaiting", outcome |-> NoOutcome,
              attempt |-> n - 1, lastError |-> before, delays |-> slept]
        ELSE IF last.state = "fulfilled"
        THEN [pc |-> "returned", outcome |-> [kind |-> "value", value |-> last.value],
              attempt |-> n - 1, lastError |-> before, delays |-> slept]
        ELSE IF last.value \in FatalAttemptMessages
        THEN [pc |-> "thrown",
              outcome |-> [kind |-> "error",
                           value |-> "Non-retryable error: " \o last.value],
              attempt |-> n - 1, lastError |-> <<last.value>>, delays |-> slept]
        ELSE IF n = 4
        THEN [pc |-> "thrown",
              outcome |-> [kind |-> "error",
                           value |-> "LLM request failed after 4 attempts. Last error: "
                                        \o last.value],
              attempt |-> n - 1, lastError |-> <<last.value>>, delays |-> slept]
        ELSE [pc |-> "sleeping", outcome |-> NoOutcome,
              attempt |-> n - 1, lastError |-> <<last.value>>,
              delays |-> SubSeq(<<1000, 2000, 4000>>, 1, n)]

\* The call c is where it would be running alone.
RunsAsAlone(c) ==
    LET n == Len(c.races)
    IN  /\ Len(c.apiCalls) = n
        /\ Len(c.timers) = n
        /\ n <= 4
        /\ Trim(c.prompt) = "" <=> n = 0
        /\ \A k \in 1..n :
              /\ c.apiCalls[k].attempt = k - 1
              /\ c.apiCalls[k].prompt = c.prompt
              /\ c.timers[k].createdAt = c.apiCalls[k].startedAt
              /\ c.timers[k].deadline = c.apiCalls[k].startedAt + 30000
              /\ k < n => /\ c.races[k].state = "rejected"
                          /\ c.races[k].value \notin FatalAttemptMessages
                          /\ c.sleeps[k].state = "fired"
                          /\ c.apiCalls[k + 1].startedAt = c.sleeps[k].deadline
              /\ c.races[k].by = "api" =>
                    /\ c.races[k].state = c.apiCalls[k].state
                    /\ c.races[k].value = c.apiCalls[k].value
              /\ c.races[k].by = "timer" =>
                    /\ c.timers[k].state = "fired"
                    /\ c.races[k].value = "LLM request timed out after 30000ms"
        /\ \A i \in 1..Len(c.sleeps) :
              /\ c.sleeps[i].after = i - 1
              /\ c.sleeps[i].deadline = c.sleeps[i].createdAt + c.sleeps[i].delay
        /\ [pc |-> c.pc, outcome |-> c.outcome, attempt |-> c.attempt,
            lastError |-> c.lastError,
            delays |-> [i \in 1..Len(c.sleeps) |-> c.sleeps[i].delay]]
              = AloneAfter(c.prompt, c.races)

C18_CallsDoNotAffectEachOther ==
    \A c \in AllCalls :
        IF c.pc = "idle"
        THEN parked = <<>> /\ c.apiCalls = <<>> /\ c.attempt = 0
        ELSE RunsAsAlone(c)

\* Two interleaved calls with different prompts have ended differently: one
\* returned the text of its second attempt, the other threw the aggregate
\* error after its fourth, and each began while the other was under way.
C18_Witness ==
    \E c, d \in AllCalls :
        /\ c.prompt # d.prompt
        /\ c.pc = "returned"
        /\ Len(c.apiCalls) = 2
        /\ c.outcome.value = " ok\n"
        /\ d.pc = "thrown"
        /\ Len(d.apiCalls) = 4
        /\ d.attempt = 3
        /\ c.apiCalls[1].startedAt < d.apiCalls[4].startedAt
        /\ d.apiCalls[1].startedAt < c.apiCalls[2].startedAt

(***************************************************************************)
(* C19: no failure is swallowed.  A call that returned returns the text    *)
(* with which the provider answered its last attempt in time; a call whose *)
(* last attempt failed, or whose prompt was blank, has thrown an error     *)
(* whose message carries the cause: the empty-prompt message, or the       *)
(* message of the last attempt's error behind the non-retryable or the     *)
(* aggregate prefix.  No value is returned after a failed last attempt.    *)
(***************************************************************************)
C19_NoFailureSwallowed ==
    /\ pc = "returned" =>
          /\ outcome.kind = "value"
          /\ Len(races) >= 1
          /\ races[Len(races)].state = "fulfilled"
          /\ AnsweredWith(Len(races), [kind |-> "text", value |-> outcome.value])
          /\ \A k \in 1..(Len(races) - 1) : races[k].state = "rejected"
    /\ pc = "thrown" =>
          /\ outcome.kind = "error"
          /\ IF Len(races) = 0
             THEN outcome.value = "Prompt cannot be empty or null"
             ELSE LET cause == races[Len(races)].value
                  IN  /\ races[Len(races)].state = "rejected"
                      /\ Len(cause) > 0
                      /\ lastError = <<cause>>
                      /\ outcome.value \in
                            {"Non-retryable error: " \o cause,
                             "LLM request failed after 4 attempts. Last error: " \o cause}
    /\ (Len(races) >= 1 /\ races[Len(races)].state = "rejected") =>
          (pc \in {"thrown", "sleeping"} /\ outcome.kind # "value")
    /\ (pc # "idle" /\ Len(races) = 0) => pc = "thrown"
    /\ outcome.kind = "none" <=> pc \in {"idle", "awaiting", "sleeping"}

C19_Witness ==
    /\ pc = "thrown"
    /\ Len(races) = 3
    /\ races[3].by = "api"
    /\ races[3].value = "Invalid API key provided"
    /\ outcome.value = "Non-retryable error: Invalid API key provided"

(***************************************************************************)
(* C20: parser round trip.  A raw text that holds a well-formed object     *)
(* with numeric flight, roomsPerNight and foodDaily, bare or wrapped in    *)
(* prose or in code-fence markers, parses to a StructuredEstimate whose    *)
(* three values are exactly the numbers written in the text.               *)
(***************************************************************************)
Amount(whole, thousandths) == whole * 1000 + thousandths

RoundTripCases ==
    {[text |-> "{\"flight\": 450, \"roomsPerNight\": 120, \"foodDaily\": 60}",
      flight |-> Amount(450, 0), roomsPerNight |-> Amount(120, 0),
      foodDaily |-> Amount(60, 0)],
     [text |-> "Here is the estimate: {\"flight\": 450, \"roomsPerNight\": 120, \"foodDaily\": 60} Enjoy your trip!",
      flight |-> Amount(450, 0), roomsPerNight |-> Amount(120, 0),
      foodDaily |-> Amount(60, 0)],
     [text |-> "~~~json\n{\n  \"flight\": 450,\n  \"roomsPerNight\": 120,\n  \"foodDaily\": 60\n}\n~~~",
      flight |-> Amount(450, 0), roomsPerNight |-> Amount(120, 0),
      foodDaily |-> Amount(60, 0)],
     [text |-> "Sure. {\"foodDaily\":60.25,\"flight\":1200.5,\"roomsPerNight\":0} and {\"flight\": 1}",
      flight |-> Amount(1200, 500), roomsPerNight |-> Amount(0, 0),
      foodDaily |-> Amount(60, 250)],
     [text |-> "{\"flight\": 100000, \"roomsPerNight\": 0.5, \"foodDaily\": 0, \"note\": \"a {brace}\"}",
      flight |-> Amount(100000, 0), roomsPerNight |-> Amount(0, 500),
      foodDaily |-> Amount(0, 0)]}

C20_ParserRoundTrip ==
    /\ \A c \in RoundTripCases : c.text \in RawTexts
    /\ \A i \in 1..Len(parses) : \A c \in RoundTripCases :
          parses[i].text = c.text =>
              /\ parses[i].result.kind = "StructuredEstimate"
              /\ parses[i].result.flight = c.flight
              /\ parses[i].result.roomsPerNight = c.roomsPerNight
              /\ parses[i].result.foodDaily = c.foodDaily

\* A prose-wrapped and a fence-wrapped object have both been parsed.
C20_Witness ==
    /\ Len(parses) >= 2
    /\ \E i, j \in 1..Len(parses) :
          /\ Includes(parses[i].text, "Here is the estimate")
          /\ parses[i].result.kind = "StructuredEstimate"
          /\ parses[i].result.flight = Amount(450, 0)
          /\ Includes(parses[j].text, "~~~json")
          /\ parses[j].result.kind = "StructuredEstimate"
          /\ parses[j].result.foodDaily = Amount(60, 0)

(***************************************************************************)
(* C21: every estimate the parser returns has flight, roomsPerNight and    *)
(* foodDaily within 0 <= value <= 100000, and a response with a field      *)
(* above 100000 or below 0 is rejected with a RangeViolationError that     *)
(* names the field, the value and the violated bound.                      *)
(***************************************************************************)
RangeCases ==
    {[text |-> "{\"flight\": 450, \"roomsPerNight\": 120, \"foodDaily\": 250000}",
      field |-> "foodDaily", value |-> Amount(250000, 0), bound |-> Amount(100000, 0)],
     [text |-> "{\"flight\": -5, \"roomsPerNight\": 120, \"foodDaily\": 60}",
      field |-> "flight", value |-> 0 - Amount(5, 0), bound |-> 0],
     [text |-> "{\"flight\": 100000.001, \"roomsPerNight\": 120, \"foodDaily\": -1}",
      field |-> "flight", value |-> Amount(100000, 1), bound |-> Amount(100000, 0)]}

C21_EstimatesWithinRange ==
    /\ \A c \in RangeCases : c.text \in RawTexts
    /\ \A i \in 1..Len(parses) :
          LET r == parses[i].result
          IN  /\ r.kind = "StructuredEstimate" =>
                    \A v \in {r.flight, r.roomsPerNight, r.foodDaily} :
                        0 <= v /\ v <= Amount(100000, 0)
              /\ \A c \in RangeCases :
                    parses[i].text = c.text =>
                        /\ r.kind = "RangeViolationError"
                        /\ r.fields = <<c.field>>
                        /\ r.value = c.value
                        /\ r.bound = c.bound

\* A response with foodDaily = 250000 and one with flight = -5 have been
\* rejected.
C21_Witness ==
    \E i, j \in 1..Len(parses) :
        /\ parses[i].result.kind = "RangeViolationError"
        /\ parses[i].result.fields = <<"foodDaily">>
        /\ parses[i].result.value = Amount(250000, 0)
        /\ parses[j].result.kind = "RangeViolationError"
        /\ parses[j].result.value = 0 - Amount(5, 0)

(***************************************************************************)
(* C22: a response object in which a required key is missing, non-numeric, *)
(* NaN or infinite is rejected with an IncompleteFieldsError that names    *)
(* the offending fields, in the order flight, roomsPerNight, foodDaily; no *)
(* estimate is produced with a value substituted for the field.            *)
(***************************************************************************)
IncompleteCases ==
    {[text |-> "{\"flight\": 450, \"roomsPerNight\": \"expensive\", \"foodDaily\": 60}",
      fields |-> <<"roomsPerNight">>],
     [text |-> "{\"flight\": NaN, \"roomsPerNight\": Infinity}",
      fields |-> <<"flight", "roomsPerNight", "foodDaily">>],
     [text |-> "{\"flight\": \"n/a\", \"roomsPerNight\": 120, \"foodDaily\": 100000.001}",
      fields |-> <<"flight">>],
     [text |-> "{\"flight\": 450, \"foodDaily\": 60}",
      fields |-> <<"roomsPerNight">>]}

C22_IncompleteFieldsRejected ==
    /\ \A c \in IncompleteCases : c.text \in RawTexts
    /\ \A i \in 1..Len(parses) : \A c \in IncompleteCases :
          parses[i].text = c.text =>
              /\ parses[i].result.kind = "IncompleteFieldsError"
              /\ parses[i].result.fields = c.fields

\* A response with a non-numeric field, one with a NaN, an infinite and a
\* missing field, and one with a missing field only have been rejected.
C22_Witness ==
    /\ Len(parses) = 3
    /\ Includes(parses[1].text, "expensive")
    /\ parses[1].result.fields = <<"roomsPerNight">>
    /\ Includes(parses[2].text, "NaN")
    /\ parses[2].result.kind = "IncompleteFieldsError"
    /\ parses[3].text = "{\"flight\": 450, \"foodDaily\": 60}"
    /\ parses[3].result.kind = "IncompleteFieldsError"

(***************************************************************************)
(* C23: the gates are applied in the order structural, completeness/type,  *)
(* range, and the first gate that fails decides the error: a text that     *)
(* violates several gates is reported with the error of the earliest one,  *)
(* and an estimate is produced only when no gate is violated.              *)
(***************************************************************************)
\* The gates each raw text violates.
ViolatedGates ==
    {<<"{\"flight\": 450, \"roomsPerNight\": 120, \"foodDaily\": 60}", {}>>,
     <<"Here is the estimate: {\"flight\": 450, \"roomsPerNight\": 120, \"foodDaily\": 60} Enjoy your trip!", {}>>,
     <<"~~~json\n{\n  \"flight\": 450,\n  \"roomsPerNight\": 120,\n  \"foodDaily\": 60\n}\n~~~", {}>>,
     <<"Sure. {\"foodDaily\":60.25,\"flight\":1200.5,\"roomsPerNight\":0} and {\"flight\": 1}", {}>>,
     <<"{\"flight\": 100000, \"roomsPerNight\": 0.5, \"foodDaily\": 0, \"note\": \"a {brace}\"}", {}>>,
     <<"{\"flight\": 450, \"roomsPerNight\": \"expensive\", \"foodDaily\": 60}", {2}>>,
     <<"{\"flight\": 450, \"roomsPerNight\": 120, \"foodDaily\": 250000}", {3}>>,
     <<"{\"flight\": -5, \"roomsPerNight\": 120, \"foodDaily\": 60}", {3}>>,
     <<"{\"flight\": NaN, \"roomsPerNight\": Infinity}", {2}>>,
     <<"{\"flight\": \"n/a\", \"roomsPerNight\": 120, \"foodDaily\": 100000.001}", {2, 3}>>,
     <<"{\"flight\": 450, \"foodDaily\": 60}", {2}>>,
     <<"{\"flight\": 100000.001, \"roomsPerNight\": 120, \"foodDaily\": -1}", {3}>>,
     <<"I cannot help with that request.", {1}>>,
     <<"{\"flight\": 450, \"roomsPerNight\": 120", {1, 2}>>,
     <<"{\"flight\": 250000, \"roomsPerNight\": \"x\"", {1, 2, 3}>>,
     <<"", {1}>>}

GateResults ==
    <<"MalformedResponseError", "IncompleteFieldsError", "RangeViolationError">>

C23_FirstFailingGateDecides ==
    /\ RawTexts = {g[1] : g \in ViolatedGates}
    /\ \A i \in 1..Len(parses) : \A g \in ViolatedGates :
          parses[i].text = g[1] =>
              parses[i].result.kind =
                  (IF g[2] = {} THEN "StructuredEstimate" ELSE GateResults[MinOf(g[2])])

\* A text that violates the completeness and the range gate and a text that
\* violates all three have been parsed.
C23_Witness ==
    \E i, j \in 1..Len(parses) :
        /\ Includes(parses[i].text, "n/a")
        /\ Includes(parses[i].text, "100000.001")
        /\ parses[i].result.kind = "IncompleteFieldsError"
        /\ parses[j].text = "{\"flight\": 250000, \"roomsPerNight\": \"x\""
        /\ parses[j].result.kind = "MalformedResponseError"

C26_DeleteRemovesPlanAndEstimates ==
    /\ (planner.reply.op = "deleteTravelPlan" /\ planner.reply.ok) =>
           /\ GetTravelPlan(planner.reply.plan) = <<>>
           /\ GetCostEstimateByPlan(planner.reply.plan) = <<>>
    /\ \A p \in 1..planner.created :
           GetTravelPlan(p) = <<>> => EstimatesOf(p) = <<>>

\* A plan with two stored estimates has just been deleted.
C26_Witness ==
    /\ planner.reply.op = "deleteTravelPlan"
    /\ planner.reply.ok
    /\ planner.reply.number = 2
    /\ GetTravelPlan(planner.reply.plan) = <<>>

(***************************************************************************)
(* C27: when estimateCost answers, the plan has a stored CostEstimate and  *)
(* the answer is flight + duration * roomsPerNight + duration * foodDaily  *)
(* of the plan's latest estimate, which is the total of getCostBreakdown   *)
(* for the same plan.                                                      *)
(***************************************************************************)
C27_EstimateCostIsTheBreakdownTotal ==
    (planner.reply.op = "estimateCost" /\ planner.reply.ok) =>
        /\ GetTravelPlan(planner.reply.plan) # <<>>
        /\ GetCostEstimateByPlan(planner.reply.plan) # <<>>
        /\ LET plan == GetTravelPlan(planner.reply.plan)[1]
               estimate == GetCostEstimateByPlan(planner.reply.plan)[1]
               duration == plan.toDate - plan.fromDate
           IN  /\ planner.reply.number =
                      estimate.flight + duration * estimate.roomsPerNight
                          + duration * estimate.foodDaily
               /\ planner.reply.number = GetCostBreakdown(plan, estimate).total

\* estimateCost has answered 450 + 3 * 120 + 3 * 60 = 990 for a trip of
\* three nights.
C27_Witness ==
    /\ planner.reply.op = "estimateCost"
    /\ planner.reply.ok
    /\ planner.reply.number = Amount(990, 0)
    /\ GetTravelPlan(planner.reply.plan) # <<>>
    /\ Duration(GetTravelPlan(planner.reply.plan)[1]) = 3

\* The plan but for its necessity.
WithoutNecessity(plan) == [plan EXCEPT !.necessity = DefaultNecessity]

\* A step of resetNecessity that was not refused.
ResetStep ==
    /\ planner' # planner
    /\ planner'.reply.op = "resetNecessity"
    /\ planner'.reply.ok

(***************************************************************************)
(* C28: the plan createTravelPlan returns has the default necessity        *)
(* (accommodation = true, diningFlag = true); after resetNecessity of an   *)
(* existing plan of the user the plan has exactly that necessity, whatever *)
(* necessity it had before, and the step changes neither its cities and    *)
(* dates nor any other plan or estimate.                                   *)
(***************************************************************************)
C28_DefaultNecessityCreatedAndRestored ==
    /\ [](((planner.reply.op \in {"createTravelPlan", "resetNecessity"}
              /\ planner.reply.ok) =>
                /\ GetTravelPlan(planner.reply.plan) # <<>>
                /\ GetTravelPlan(planner.reply.plan)[1].necessity =
                       [accommodation |-> TRUE, diningFlag |-> TRUE]))
    /\ [][ResetStep =>
            /\ DOMAIN planner'.plans = DOMAIN planner.plans
            /\ \A p \in DOMAIN planner.plans :
                   WithoutNecessity(planner'.plans[p]) = WithoutNecessity(planner.plans[p])
            /\ \A p \in DOMAIN planner.plans \ {planner'.reply.plan} :
                   planner'.plans[p] = planner.plans[p]
            /\ planner'.estimates = planner.estimates]_vars

\* resetNecessity has restored the default of a plan whose necessity
\* updateNecessity had set to (false, false).
C28_Witness ==
    /\ planner.reply.op = "resetNecessity"
    /\ planner.reply.ok
    /\ planner.reply.necessity = <<[accommodation |-> FALSE, diningFlag |-> FALSE]>>
    /\ GetTravelPlan(planner.reply.plan)[1].necessity = DefaultNecessity
    /\ GetTravelPlan(planner.reply.plan)[1].toDate = 5

\* The provider has answered none of the calls of executeLLM so far.
ProviderSilent == \A k \in 1..Len(apiCalls) : apiCalls[k].settlesAt = Never

(***************************************************************************)
(* C29: executeLLM always settles.  When the timers that are due fire, a   *)
(* call of executeLLM that is waiting for an attempt or for a backoff      *)
(* eventually returns or throws, also when the provider never answers any  *)
(* of its calls.                                                           *)
(***************************************************************************)
C29_ExecuteLLMSettles == (pc \in {"awaiting", "sleeping"}) ~> Settled

\* executeLLM has thrown after four attempts none of which the provider
\* answered: every attempt was ended by its timer.
C29_Witness ==
    /\ pc = "thrown"
    /\ Len(apiCalls) = 4
    /\ ProviderSilent
    /\ \A k \in 1..Len(races) : races[k].by = "timer"
    /\ Len(sleeps) = 3

\* The timeout timers of the call that are still pending, and its provider
\* calls that are still in flight.
PendingTimers == {k \in 1..Len(timers) : timers[k].state = "pending"}

InFlightCalls == {k \in 1..Len(apiCalls) : apiCalls[k].state = "inflight"}

(***************************************************************************)
(* C30: abandoning the loser of the timeout race leaks nothing.  Once      *)
(* executeLLM has returned or thrown, none of the timeout timers it        *)
(* created is still pending and none of the provider calls it started is   *)
(* still in flight.                                                        *)
(***************************************************************************)
C30_NothingLeftBehind == Settled => (PendingTimers = {} /\ InFlightCalls = {})

\* The timer of attempt j - 1 fires in this step, after the race of that
\* attempt was settled by the provider.
StaleTimerFires(j) ==
    /\ j \in 1..Len(timers)
    /\ timers[j].state = "pending"
    /\ timers'[j].state = "fired"
    /\ races[j].state # "pending"

(***************************************************************************)
(* C31: each attempt is timed by its own timer only.  A race ended by a    *)
(* timeout was ended by the timer created with it, at that timer's         *)
(* deadline; and the firing of the timer of an attempt whose race is       *)
(* already settled, during a later attempt or a backoff sleep or after     *)
(* executeLLM has settled, changes nothing but that timer and the clock:   *)
(* no race, no attempt counter, no provider call, no sleep, no result.     *)
(***************************************************************************)
C31_StaleTimersChangeNothing ==
    /\ [](\A k \in 1..Len(races) :
            races[k].by = "timer" =>
                /\ timers[k].state = "fired"
                /\ now >= timers[k].deadline
                /\ timers[k].createdAt = apiCalls[k].startedAt)
    /\ [][\A j \in 1..Len(timers) :
            StaleTimerFires(j) =>
                /\ UNCHANGED <<pc, attempt, lastError, outcome, races, apiCalls, sleeps, log>>
                /\ Len(timers') = Len(timers)]_vars

\* The timer of attempt 0 has fired while attempt 1 was awaiting its provider
\* call, and the timer of attempt 1 during the backoff sleep after attempt 1;
\* both attempts were failed by the provider, and attempt 2 has begun.
C31_Witness ==
    /\ Len(apiCalls) = 3
    /\ races[1].by = "api"
    /\ races[2].by = "api"
    /\ timers[1].state = "fired"
    /\ timers[2].state = "fired"
    /\ apiCalls[2].startedAt < timers[1].deadline
    /\ timers[1].deadline < apiCalls[2].settlesAt
    /\ sleeps[2].createdAt < timers[2].deadline
    /\ timers[2].deadline < sleeps[2].deadline
    /\ pc = "awaiting"

\* The provider call of attempt k - 1 was abandoned at its timeout and
\* produced a valid text later.
AbandonedThenFulfilled(k) ==
    /\ k \in 1..Len(races)
    /\ races[k].by = "timer"
    /\ apiCalls[k].state = "fulfilled"

(***************************************************************************)
(* C32: when executeLLM has returned, its value is, character for          *)
(* character, the text the provider gave to the call of the attempt that   *)
(* was current, which is the last call started and whose race the provider *)
(* settled; every earlier attempt was rejected.  A provider call abandoned *)
(* at its timeout that produces a text later leaves its attempt failed     *)
(* with the timeout error and is never the call whose text is returned;    *)
(* when it is the call of the last attempt, executeLLM has thrown the      *)
(* aggregate error.                                                        *)
(***************************************************************************)
C32_ReturnsTextOfCurrentAttempt ==
    /\ pc = "returned" =>
          /\ Len(apiCalls) = attempt + 1
          /\ races[attempt + 1].by = "api"
          /\ races[attempt + 1].state = "fulfilled"
          /\ apiCalls[attempt + 1].raw.kind = "text"
          /\ outcome = [kind |-> "value", value |-> apiCalls[attempt + 1].raw.value]
          /\ \A j \in 1..attempt : races[j].state = "rejected"
    /\ \A k \in 1..Len(races) :
          AbandonedThenFulfilled(k) =>
              /\ races[k].state = "rejected"
              /\ races[k].value = "LLM request timed out after 30000ms"
              /\ pc = "returned" => k < Len(apiCalls)
              /\ k = retryConfig.maxRetries + 1 =>
                    /\ pc = "thrown"
                    /\ outcome.value =
                          "LLM request failed after 4 attempts. Last error: LLM request timed out after 30000ms"

\* executeLLM has thrown the aggregate error although each of its four
\* provider calls produced the text " ok\n" after its timeout.
C32_Witness ==
    /\ pc = "thrown"
    /\ Len(apiCalls) = 4
    /\ \A k \in 1..4 :
          /\ AbandonedThenFulfilled(k)
          /\ apiCalls[k].value = " ok\n"
    /\ outcome.value =
          "LLM request failed after 4 attempts. Last error: LLM request timed out after 30000ms"

\* The provider call of the attempt executeLLM is awaiting, if any.
CurrentCall == IF pc = "awaiting" THEN {attempt + 1} ELSE {}

(***************************************************************************)
(* C33: at every moment of an executeLLM call, a provider call that is     *)
(* still in flight and is not the call of the attempt being awaited        *)
(* belongs to an attempt that was ended by its timer; an attempt the       *)
(* provider failed or answered leaves no call in flight; so two or more    *)
(* calls are in flight only after a timeout, and never more calls than     *)
(* attempts were started.                                                  *)
(***************************************************************************)
C33_OutstandingCallsOnlyAfterTimeout ==
    /\ \A k \in InFlightCalls \ CurrentCall : races[k].by = "timer"
    /\ \A k \in 1..Len(races) : races[k].by = "api" => k \notin InFlightCalls
    /\ Cardinality(InFlightCalls) >= 2 =>
          \E k \in InFlightCalls : races[k].by = "timer" /\ timers[k].state = "fired"
    /\ Cardinality(InFlightCalls) <= Len(apiCalls)
    /\ Len(apiCalls) <= attempt + 1
    /\ CurrentCall \subseteq InFlightCalls

\* Attempt 2 is awaiting its provider call while the calls of attempts 0 and
\* 1, both ended by their timers, are still in flight.
C33_Witness ==
    /\ pc = "awaiting"
    /\ attempt = 2
    /\ InFlightCalls = {1, 2, 3}
    /\ races[1].by = "timer"
    /\ races[2].by = "timer"
    /\ races[3].state = "pending"

\* The error executeLLM threw is the aggregate error of exhausted retries.
ThrewAggregate ==
    /\ pc = "thrown"
    /\ Len(outcome.value) >= 25
    /\ SubSeq(outcome.value, 1, 25) = "LLM request failed after "

(***************************************************************************)
(* C34: when executeLLM has settled after at least one provider call, the  *)
(* number of backoff sleeps it performed is the number of provider calls   *)
(* it started minus 1, and every sleep ran to its end: a success or a      *)
(* non-retryable failure at attempt k follows k sleeps and k + 1 calls,    *)
(* and exhausted retries follow maxRetries sleeps and maxRetries + 1       *)
(* calls.                                                                  *)
(***************************************************************************)
C34_SleepsAreCallsMinusOne ==
    (Settled /\ Len(apiCalls) >= 1) =>
        /\ Len(sleeps) = Len(apiCalls) - 1
        /\ Len(apiCalls) = attempt + 1
        /\ Len(sleeps) = attempt
        /\ \A i \in 1..Len(sleeps) : sleeps[i].state = "fired" /\ sleeps[i].after = i - 1
        /\ ThrewAggregate =>
              /\ Len(sleeps) = 3
              /\ Len(apiCalls) = 4

\* executeLLM has returned at attempt 3 after three failed attempts: three
\* sleeps and four provider calls.
C34_Witness ==
    /\ pc = "returned"
    /\ attempt = 3
    /\ Len(sleeps) = 3
    /\ Len(apiCalls) = 4
    /\ races[4].state = "fulfilled"

\* Attempt k - 1 failed with a message that contains a non-retryable
\* substring.
FailedFatally(k) ==
    /\ k \in 1..Len(races)
    /\ races[k].state = "rejected"
    /\ races[k].value \in FatalAttemptMessages

(***************************************************************************)
(* C35: when the attempts before attempt k failed with retryable errors    *)
(* and attempt k, which may be the last attempt (k = maxRetries = 3),      *)
(* fails with a non-retryable message, executeLLM has made exactly k + 1   *)
(* provider calls and has thrown "Non-retryable error: " followed by the   *)
(* message of attempt k, not the aggregate error.                          *)
(***************************************************************************)
C35_NonRetryableAtAnyAttempt ==
    \A k \in 1..Len(races) :
        FailedFatally(k) =>
            /\ \A j \in 1..(k - 1) :
                  races[j].state = "rejected" /\ races[j].value \notin FatalAttemptMessages
            /\ k <= 4
            /\ Len(apiCalls) = k
            /\ pc = "thrown"
            /\ outcome = [kind |-> "error", value |-> "Non-retryable error: " \o races[k].value]
            /\ ~ThrewAggregate

\* The last attempt, attempt 3, has failed with the quota error after three
\* retryable failures.
C35_Witness ==
    /\ Len(apiCalls) = 4
    /\ FailedFatally(4)
    /\ races[1].value = "Gemini API error: fetch failed"
    /\ races[2].value = "LLM request timed out after 30000ms"
    /\ races[4].value = "API quota exceeded - please try again later"
    /\ outcome.value = "Non-retryable error: API quota exceeded - please try again later"

\* What a run of executeLLM saw of its attempts, what it asked of the
\* provider and how long it slept.
AttemptOutcomes(c) ==
    [k \in 1..Len(c.races) |-> [state |-> c.races[k].state, value |-> c.races[k].value]]

ProviderCallsOf(c) ==
    [k \in 1..Len(c.apiCalls) |->
        [attempt |-> c.apiCalls[k].attempt, prompt |-> c.apiCalls[k].prompt]]

DelaysOf(c) == [i \in 1..Len(c.sleeps) |-> c.sleeps[i].delay]

(***************************************************************************)
(* C36: the backoff has no jitter.  Two executeLLM runs with the same      *)
(* prompt that saw the same sequence of attempt outcomes made the same     *)
(* provider calls, slept the same sequence of delays and stand at the same *)
(* point with the same result; and the delay after failed attempt k is the *)
(* same in any two runs, whether the failure was a timeout, an empty       *)
(* response or a provider error.                                           *)
(***************************************************************************)
C36_BackoffDeterministic ==
    \A c, d \in AllCalls :
        /\ (c.prompt = d.prompt /\ AttemptOutcomes(c) = AttemptOutcomes(d)) =>
              /\ ProviderCallsOf(c) = ProviderCallsOf(d)
              /\ DelaysOf(c) = DelaysOf(d)
              /\ c.pc = d.pc
              /\ c.outcome = d.outcome
        /\ \A i \in 1..Len(c.sleeps) :
              i <= Len(d.sleeps) =>
                  /\ c.sleeps[i].delay = d.sleeps[i].delay
                  /\ c.sleeps[i].after = i - 1

\* Two runs that began at different times have both seen a timeout, an
\* empty response and then a text, and both have returned after sleeps of
\* 1000 and 2000 ms.
C36_Witness ==
    /\ parked # <<>>
    /\ parked[1].prompt = prompt
    /\ AttemptOutcomes(parked[1]) = AttemptOutcomes(Locals)
    /\ Len(races) = 3
    /\ races[1].by = "timer"
    /\ races[2].value = "Gemini API error: LLM returned empty response"
    /\ pc = "returned"
    /\ parked[1].pc = "returned"
    /\ DelaysOf(Locals) = <<1000, 2000>>
    /\ apiCalls[1].startedAt # parked[1].apiCalls[1].startedAt

\* Two runs whose first attempts failed for different causes.
DifferentCausesAtAttemptZero ==
    /\ parked # <<>>
    /\ Len(sleeps) >= 1
    /\ Len(parked[1].sleeps) >= 1
    /\ races[1].by = "timer"
    /\ parked[1].races[1].by = "api"
    /\ parked[1].races[1].value = "Gemini API error: fetch failed"

\* The message contains none of the provider markers, in the letter case of
\* the markers.
HasNoMarker(m) == \A cm \in ClarifiedMessages : ~Includes(m, cm[1])

(***************************************************************************)
(* C37: the markers are matched in their own letter case and the           *)
(* classification in any letter case.  A provider error whose message X    *)
(* contains no marker reaches executeLLM as "Gemini API error: X" and is   *)
(* non-retryable exactly when X contains, in any letter case, one of the   *)
(* five non-retryable substrings; a message with a marker gets the         *)
(* marker's clarified message, which is non-retryable; the timeout message *)
(* of any timeoutMs and the empty-response message contain none of the     *)
(* five substrings and are retryable.                                      *)
(***************************************************************************)
C37_ClassificationOfRemappedMessage ==
    \A i \in 1..Len(classified) :
        LET e == classified[i]
        IN  /\ (e.kind = "provider" /\ HasNoMarker(e.raw)) =>
                  /\ e.message = "Gemini API error: " \o e.raw
                  /\ e.nonRetryable <=> ContainsFatalSubstring(e.raw)
            /\ (e.kind = "provider" /\ ~HasNoMarker(e.raw)) =>
                  /\ \E cm \in ClarifiedMessages : Includes(e.raw, cm[1]) /\ e.message = cm[2]
                  /\ e.nonRetryable
            /\ e.kind = "timeout" =>
                  /\ e.message = "LLM request timed out after " \o e.raw \o "ms"
                  /\ ~ContainsFatalSubstring(e.message)
                  /\ ~e.nonRetryable
            /\ e.kind = "empty" =>
                  /\ e.message = "Gemini API error: LLM returned empty response"
                  /\ ~ContainsFatalSubstring(e.message)
                  /\ ~e.nonRetryable

\* A marker in lower case has been wrapped and found retryable, and a
\* non-retryable substring in upper case has been wrapped and found
\* non-retryable.
C37_Witness ==
    /\ Len(classified) = 2
    /\ classified[1] = [kind |-> "provider", raw |-> "api_key_invalid",
                        message |-> "Gemini API error: api_key_invalid",
                        nonRetryable |-> FALSE]
    /\ classified[2] = [kind |-> "provider", raw |-> "INVALID API KEY",
                        message |-> "Gemini API error: INVALID API KEY",
                        nonRetryable |-> TRUE]

\* The console has a line for the failure of attempt k - 1 with its number
\* and its cause.
FailureLogged(k) ==
    \E i \in 1..Len(log) :
        Includes(log[i], "Attempt " \o ToString(k) \o " failed: " \o races[k].value)

(***************************************************************************)
(* C38: every failed attempt of executeLLM is logged with its attempt      *)
(* number and its cause, the failure of the last attempt and a             *)
(* non-retryable failure included.                                         *)
(***************************************************************************)
C38_EveryFailedAttemptLogged ==
    \A k \in 1..Len(races) : races[k].state = "rejected" => FailureLogged(k)

====
